---- MODULE Spec2Model ----
(***************************************************************************)
(* Model of the Task Agent of lattice_drone_control:                       *)
(*   core/task_manager.py   TaskManager (listen-loop handler, executions)  *)
(*   core/middleware.py     DroneMiddleware.execute_task/_run_task/stop    *)
(*   core/state_manager.py  StateManager.update_task_status                *)
(*   connectors/lattice.py  LatticeConnector.watch_tasks/update_task_status*)
(*   tasks/*.py             MappingTask, RelayTask, DroppingTask           *)
(*                                                                         *)
(* The program runs on one asyncio event loop: the code between two awaits *)
(* is atomic, and every await is a point where another coroutine may run.  *)
(* Each action below is one such atomic block.                             *)
(***************************************************************************)
EXTENDS Integers, Sequences, FiniteSets, TLC

\* ------------------------------------------------------------------ bounds
\* AgentRequests the agent acts on in one behaviour (a request it ignores
\* leaves no trace and is not counted).
MaxRequests == 2
\* Waypoints the mapping executor flies (the generator's list, shortened).
MaxWaypoints == 2
\* Drop locations of a dropping task that carries parameters.
MaxDrops == 2
\* 5 s ticks of the relay maintenance loop before duration elapses.
MaxRelayTicks == 1

\* ------------------------------------------------------------- constants
None == "none"
\* keys of DroneMiddleware.drone_connectors (the managed drones)
Drones == {"d1", "d2"}
\* an entity id that names no managed drone
Unmanaged == "dx"
TaskIds == {"T1", "T2"}
\* progress is a float in [0, 1]; the model counts in percent

\* A specification URL is modelled by the set of keywords it contains (the
\* handler only tests `word in spec_url`); {} is a URL with none of them, or
\* no URL.
Keywords == {"VisualId", "Investigate", "Monitor", "Mapping", "Relay",
             "Dropping"}
\* the URLs of the requests the C2 sends in Spec
SpecUrls == {{"Monitor"}, {"Relay"}, {"Dropping"}}

VARIABLES
    status_version_counter, \* LatticeConnector.status_version_counter
    is_connected,           \* LatticeConnector.is_connected
    last_update,            \* the latest outbound UpdateTaskStatus request
    sent,                   \* per task_id: the statuses sent for it, in order
    active_tasks,           \* TaskManager.active_tasks: task_id -> record
    mw_active,              \* DroneMiddleware.active_tasks: drone_id -> id
    store,                  \* StateManager._drone_states (task facet)
    runs,                   \* the _execute_task coroutines, in spawn order
    hpc,                    \* position of the listen loop / its handler
    lastReq,                \* the AgentRequest last returned by the long poll
    nreq,                   \* AgentRequests acted on so far
    armed,                  \* per drone: the flight controller's armed state
    notified,               \* what the state-change subscriber was called with
    reporter,               \* the call of the progress callback in progress
    client,                 \* LatticeConnector.client is not None (REST)
    use_grpc,               \* LatticeConnector.use_grpc (stub initialised)
    ticks,                  \* per drone: the position ticks read so far
    last_valid_position,    \* per drone: MAVSDKConnector._last_valid_position
    last_good_location,     \* LatticeConnector._last_good_location
    publisher,              \* position of the publish loop's update
    published,              \* the PublishEntity requests issued, in order
    errors,                 \* consecutive ListenAsAgent errors (ghost)
    retry_count,            \* start_task_watcher's retry_count
    waits,                  \* the sleeps of the listen loop since the last request
    supervisor,             \* DroneMiddleware: its shutdown and its services
    preflight,              \* an Executor's pre_flight_check and first command
    command,                \* a MAVSDKConnector command in progress; is_armed
    mapping,                \* a MappingTask's MC3 pattern: inputs, waypoints
    smoothing,              \* MAVSDKConnector's smoothed heading and speed
    flight,                 \* one Executor's execute() and what it awaited
    calls,                  \* concurrent update_task_status calls: their position
    received                \* status versions in the order the C2 received them

\* the Asset Publisher and the Drone Sessions' position caches
pubvars == <<client, use_grpc, ticks, last_valid_position, last_good_location,
             publisher, published>>

\* the listen loop's retry state
listenvars == <<errors, retry_count, waits>>

\* concurrent status updates on their way to the C2
ordervars == <<calls, received>>

\* an Executor and the adapter commands it awaits, modelled on their own
flightvars == <<preflight, command, mapping, smoothing, flight>>

\* everything but flightvars
agentvars == <<status_version_counter, is_connected, last_update, sent,
            active_tasks, mw_active, store, runs, hpc, lastReq, nreq, armed,
            notified, reporter, pubvars, listenvars, ordervars, supervisor>>
ground == <<agentvars, command, mapping, smoothing, flight>>
besidecommand == <<agentvars, preflight, mapping, smoothing, flight>>
besidemapping == <<agentvars, preflight, command, smoothing, flight>>
besidesmoothing == <<agentvars, preflight, command, mapping, flight>>
besideflight == <<agentvars, preflight, command, mapping, smoothing>>

\* the components modelled on their own
extra == <<ordervars, supervisor, flightvars>>

\* the state of the components that take no part in task handling
others == <<notified, reporter, pubvars, retry_count, extra>>

vars == <<status_version_counter, is_connected, last_update, sent, active_tasks,
          mw_active, store, runs, hpc, lastReq, nreq, armed, errors, waits,
          waits, others>>

\* ------------------------------------------------------------- helpers
Del(f, k) == [x \in DOMAIN f \ {k} |-> f[x]]
Put(f, k, v) == [x \in DOMAIN f \cup {k} |-> IF x = k THEN v ELSE f[x]]
Empty == [x \in {} |-> x]

Terminal == {"STATUS_DONE_OK", "STATUS_DONE_NOT_OK"}

\* Requests the C2 may deliver.  task = None: no task_id; drone = None: no
\* assignee; params: whether the request object carries a `parameters`
\* attribute (task_manager.py:207).  Only the relay and dropping executors
\* read parameters they cannot default, and a request that is dropped or
\* rejected is handled before its URL or parameters are used, so one URL
\* stands for all of them there.
Requests ==
    [type : {"execute"}, task : TaskIds, drone : Drones,
     url : SpecUrls \ {{"Monitor"}}, params : BOOLEAN]
    \cup [type : {"execute"}, task : TaskIds, drone : Drones,
          url : {{"Monitor"}}, params : {FALSE}]
    \cup [type : {"execute"}, task : TaskIds, drone : {Unmanaged, None},
          url : {{"Monitor"}}, params : {FALSE}]
    \cup [type : {"execute"}, task : {None}, drone : {"d1"},
          url : {{"Monitor"}}, params : {FALSE}]
    \cup [type : {"cancel", "complete"}, task : TaskIds \cup {None},
          drone : {None}, url : {{}}, params : {FALSE}]
    \cup [type : {"keepalive"}, task : {None}, drone : {None}, url : {{}},
          params : {FALSE}]

NoReq == [type |-> "keepalive", task |-> None, drone |-> None, url |-> {},
          params |-> FALSE]

\* Faulty variant of TaskTypeOf (tests C11): the task words are tested
\* before the surveillance words.
TaskTypeOfTaskWordsFirst(url) ==
    IF "Mapping" \in url THEN "mapping"
    ELSE IF "Relay" \in url THEN "relay"
    ELSE IF "Dropping" \in url THEN "dropping"
    ELSE "mapping"

\* task_manager.py:150-161, 216: specification URL -> internal task type
TaskTypeOf(url) ==
    IF url = {} THEN "mapping"
    ELSE IF url \cap {"VisualId", "Investigate", "Monitor"} # {} THEN "mapping"
    ELSE IF "Mapping" \in url THEN "mapping"
    ELSE IF "Relay" \in url THEN "relay"
    ELSE IF "Dropping" \in url THEN "dropping"
    ELSE "mapping"

\* middleware.py:173  f"{drone_id}_{task_type}_{datetime.now().isoformat()}"
MwTaskId(d, kind, r) == d \o "_" \o kind \o "_" \o ToString(r)

\* ------------------------------------------------------- State Store
\* models/drone.py: the DroneState the Supervisor registers for a drone (the
\* task facet and, of the telemetry fields, armed)
NewDroneState ==
    [current_task |-> None, task_status |-> "NONE", task_progress |-> 0,
     armed |-> FALSE]

\* StateManager.update_task_status
UpdateTaskStatus(st, d, t, status, p) ==
    IF d \in DOMAIN st
    THEN [st EXCEPT ![d].current_task = t, ![d].task_status = status,
                    ![d].task_progress = p]
    ELSE st

\* Faulty variant of DirectWrite (tests C15): clearing current_task leaves the
\* task_status as it was.
DirectWriteKeepsStatus(st, d, t, status) ==
    IF d \in DOMAIN st
    THEN [st EXCEPT ![d].current_task = t,
                    ![d].task_status = IF t = None THEN @ ELSE status]
    ELSE st

\* get_drone_state returns the stored object itself, so the Supervisor's
\* attribute writes (middleware.py:190-191, 198-199, 238-239) change the store.
DirectWrite(st, d, t, status) ==
    IF d \in DOMAIN st
    THEN [st EXCEPT ![d].current_task = t, ![d].task_status = status]
    ELSE st

\* ------------------------------------------------- status-version protocol
\* Faulty variant of StatusVersion (tests C1): a failed RPC gives its version
\* back to the next update.
StatusVersionReused(t) ==
    IF last_update.ok THEN status_version_counter + 1
    ELSE status_version_counter

\* lattice.py:1196-1197
StatusVersion(t) == status_version_counter + 1

\* LatticeConnector.update_task_status: the part before the RPC is awaited.
\* `src` names the call site and `p` is the progress argument of the call
\* (the REST request built at lattice.py:1235-1239 carries task_id, status
\* and status_version).  The outbound requests are kept as the latest one
\* (last_update) and, per task, the statuses in order (sent).  `ok` is the
\* outcome of the request's RPC and prev_ok that of the request before it.
Emit(t, status, p, src) ==
    IF is_connected
    THEN /\ status_version_counter' = StatusVersion(t)
         /\ last_update' =
                [task |-> t, status |-> status, progress |-> p,
                 version |-> StatusVersion(t), src |-> src, ok |-> TRUE,
                 prev_ok |-> last_update.ok]
         /\ sent' = [sent EXCEPT ![t] = Append(@,
                [status |-> status, progress |-> p, src |-> src])]
    ELSE UNCHANGED <<status_version_counter, last_update, sent>>

NoEmit == UNCHANGED <<status_version_counter, last_update, sent>>

NoUpdate == [task |-> None, status |-> None, progress |-> 0, version |-> 0,
             src |-> None, ok |-> TRUE, prev_ok |-> TRUE]

\* no call of the progress callback is in progress
NoReport == [pc |-> "idle", progress |-> 0]

\* the publish loop is between two updates
NoPublish == [pc |-> "idle", drone |-> None, failed |-> FALSE, position |-> {}]

\* The Asset Publisher before its first tick; by default the connector uses
\* REST only (lattice.py:399).
\* DroneMiddleware after a start() in which every configured drone connected:
\* the listen loop and the publish loops are running (TaskManager.is_running,
\* EntityManager.is_running), a Session is connected for every drone, and
\* every drone is in drone_connectors and in the Publisher's
\* registered_drones.  queue: the drones still to connect; failed: those
\* whose connect raised (ghost).
Started ==
    [pc |-> "running", pending |-> {}, drone |-> None, agent_running |-> TRUE,
     publisher_running |-> TRUE, sessions |-> Drones, connectors |-> Drones,
     registered |-> Drones, queue |-> <<>>, failed |-> {}]

\* the connector before any command: is_armed is False (mavsdk.py:39).
\* was_armed: is_armed when the command was called; log: the library
\* commands issued; att: the takeoff attempt (3: the guided climb); k: the
\* samples counted by the wait in progress; seen: the last relative altitude
\* read, in decimetres; pos: the position the fallback read; goto: the target
\* it commanded; fault: ended by an exception or a rejected Arm.
NoCommand ==
    [name |-> None, pc |-> "idle", is_armed |-> FALSE, was_armed |-> FALSE,
     log |-> <<>>, att |-> 0, k |-> 0, seen |-> 0, pos |-> {}, goto |-> {},
     fault |-> FALSE, result |-> None]

\* get_telemetry was never called: _smoothed_heading_deg and
\* _smoothed_speed_mps are None ({}).  heading in millidegrees, speed in
\* mm/s; input: the heading of the steady stream; steady: how many ticks of
\* it (speed 0, that heading) were read in a row (ghost).
NoSmoothing == [heading |-> {}, speed |-> {}, input |-> 0, steady |-> 0]

\* no Executor was created.  log: the primitives execute() awaited, in
\* order, each with its index (waypoint, drop location, relay tick) and its
\* outcome; stopped: stop() was called; result: what execute() returned.
NoFlight == [kind |-> None, params |-> FALSE, pc |-> "idle", idx |-> 0,
             is_running |-> FALSE, stopped |-> FALSE, log |-> <<>>,
             result |-> None]

\* no MC3 pattern was generated.  center: {} or the one centre given; size
\* in metres; waypoints: lat, lon in units of 1/(Scale * 111000) degree.
NoPattern ==
    [pc |-> "idle", center |-> {}, size |-> [width |-> 0, height |-> 0],
     altitude |-> 0, waypoints |-> <<>>]

\* no Executor is in its pre-flight check.  tel: the first snapshot (armed;
\* gps: {} when no fix type is reported); arm: the outcome of the Arm
\* command; confirm: armed in the fresh snapshot; commands: the adapter
\* commands issued, in order.
NoPreflight ==
    [pc |-> "idle", kind |-> None, params |-> FALSE,
     tel |-> [armed |-> FALSE, gps |-> {}], arm |-> None, confirm |-> FALSE,
     commands |-> <<>>]

\* no status update is on its way
Callers == {"exec1", "exec2", "handler"}
NoCall == [pc |-> "idle", version |-> 0]

\* the components modelled on their own, before they start
ExtraIdle ==
    /\ preflight = NoPreflight
    /\ command = NoCommand
    /\ mapping = NoPattern
    /\ smoothing = NoSmoothing
    /\ flight = NoFlight
    /\ supervisor = Started
    /\ calls = [c \in Callers |-> NoCall]
    /\ received = <<>>

PublisherIdle ==
    /\ ExtraIdle
    /\ errors = 0
    /\ retry_count = 0
    /\ waits = <<>>
    /\ client = TRUE
    /\ use_grpc = FALSE
    /\ ticks = [d \in Drones |-> <<>>]
    /\ last_valid_position = [d \in Drones |-> {}]
    /\ last_good_location = [d \in Drones |-> {}]
    /\ publisher = NoPublish
    /\ published = <<>>

Init ==
    /\ PublisherIdle
    /\ status_version_counter = 1
    /\ is_connected = TRUE
    /\ last_update = NoUpdate
    /\ sent = [t \in TaskIds |-> <<>>]
    /\ active_tasks = Empty
    /\ mw_active = Empty
    /\ store = [d \in Drones |-> NewDroneState]
    /\ runs = <<>>
    /\ hpc = "idle"
    /\ lastReq = NoReq
    /\ nreq = 0
    /\ armed = [d \in Drones |-> TRUE]
    /\ notified = <<>>
    /\ reporter = NoReport

\* ------------------------------------------------------------ Executors
\* Positions of a task's execute() coroutine: the primitive it is awaiting.
FlightPcs == {"takeoff", "goto", "goto_a", "goto_d", "goto_r"}
ExecutorPcs == FlightPcs \cup {"preflight", "sleep", "rtl", "hold",
                               "get_position", "stabilize", "release"}

Continue(pc, idx) == [ret |-> "run", pc |-> pc, idx |-> idx]
Return(ok) == [ret |-> IF ok THEN "ok" ELSE "fail", pc |-> "returned",
               idx |-> 0]

\* mapping.py:75-85: the waypoint loop, then ReturnToLaunch
MappingLoop(i, running) ==
    IF i <= MaxWaypoints /\ running THEN Continue("goto", i)
    ELSE Continue("rtl", 0)

\* Faulty variant of MappingNext (tests C32): a waypoint that is not reached
\* aborts the mission.
MappingNextAbortsOnFailedGoto(pc, idx, ok, running) ==
    CASE pc = "preflight" -> IF ok THEN Continue("takeoff", 0) ELSE Return(FALSE)
      [] pc = "takeoff"   -> IF ok THEN MappingLoop(1, running) ELSE Return(FALSE)
      [] pc = "goto"      -> IF ok THEN Continue("sleep", idx) ELSE Return(FALSE)
      [] pc = "sleep"     -> MappingLoop(idx + 1, running)
      [] pc = "rtl"       -> IF ok THEN Return(TRUE) ELSE Continue("hold", 0)
      [] pc = "hold"      -> Return(TRUE)

\* MappingTask.execute, one primitive at a time: `ok` is the outcome of the
\* primitive that was awaited at `pc`.
MappingNext(pc, idx, ok, running) ==
    CASE pc = "preflight" -> IF ok THEN Continue("takeoff", 0) ELSE Return(FALSE)
      [] pc = "takeoff"   -> IF ok THEN MappingLoop(1, running) ELSE Return(FALSE)
      [] pc = "goto"      -> Continue("sleep", idx)
      [] pc = "sleep"     -> MappingLoop(idx + 1, running)
      [] pc = "rtl"       -> IF ok THEN Return(TRUE) ELSE Continue("hold", 0)
      [] pc = "hold"      -> Return(TRUE)

\* relay.py:62: while self.is_running and elapsed < duration
RelayLoop(k, running) ==
    IF running /\ k <= MaxRelayTicks THEN Continue("get_position", k)
    ELSE Return(TRUE)

\* RelayTask.execute and _maintain_relay_position.  Without parameters
\* relay_position is {} and relay_position["lat"] raises (relay.py:31).
RelayNext(pc, idx, ok, running, params) ==
    CASE pc = "preflight" ->
           IF ok /\ params THEN Continue("goto", 0) ELSE Return(FALSE)
      [] pc = "goto" ->
           IF idx = 0 THEN (IF ok THEN RelayLoop(1, running) ELSE Return(FALSE))
           ELSE Continue("sleep", idx)
      [] pc = "get_position" ->
           \* ok: within the 5 m tolerance
           IF ok THEN Continue("sleep", idx) ELSE Continue("goto", idx)
      [] pc = "sleep" -> RelayLoop(idx + 1, running)

\* dropping.py:33-35: the loop over drop_locations
DroppingLoop(i, running) ==
    IF i <= MaxDrops /\ running THEN Continue("goto_a", i) ELSE Return(TRUE)

\* Faulty variant of DroppingNext (tests C34): a failed descent is logged
\* and the drop goes on.
DroppingNextDropsAnyway(pc, idx, ok, running, params) ==
    CASE pc = "preflight" ->
           IF ok /\ params THEN DroppingLoop(1, running) ELSE Return(FALSE)
      [] pc = "goto_a" -> IF ok THEN Continue("goto_d", idx) ELSE Return(FALSE)
      [] pc = "goto_d" -> Continue("stabilize", idx)
      [] pc = "stabilize" ->
           IF ok THEN Continue("release", idx) ELSE Continue("goto_r", idx)
      [] pc = "release" -> Continue("goto_r", idx)
      [] pc = "goto_r" -> DroppingLoop(idx + 1, running)

\* DroppingTask.execute and _execute_drop.  Without parameters drop_locations
\* is [] and the task fails (dropping.py:28-30).
DroppingNext(pc, idx, ok, running, params) ==
    CASE pc = "preflight" ->
           IF ok /\ params THEN DroppingLoop(1, running) ELSE Return(FALSE)
      [] pc = "goto_a" -> IF ok THEN Continue("goto_d", idx) ELSE Return(FALSE)
      [] pc = "goto_d" -> IF ok THEN Continue("stabilize", idx) ELSE Return(FALSE)
      [] pc = "stabilize" ->
           \* ok: _check_drop_conditions
           IF ok THEN Continue("release", idx) ELSE Continue("goto_r", idx)
      [] pc = "release" -> Continue("goto_r", idx)
      [] pc = "goto_r" -> DroppingLoop(idx + 1, running)

ExecutorNext(run, ok) ==
    CASE run.kind = "mapping" ->
           MappingNext(run.pc, run.idx, ok, run.is_running)
      [] run.kind = "relay" ->
           RelayNext(run.pc, run.idx, ok, run.is_running, run.params)
      [] run.kind = "dropping" ->
           DroppingNext(run.pc, run.idx, ok, run.is_running, run.params)

\* ------------------------------------------------------- listen loop
\* lattice.py:1086-1096: what watch_tasks hands to the callback
Forwarded(req) ==
    \/ req.type = "execute" /\ req.task # None
    \/ req.type \in {"cancel", "complete"}

\* Faulty variant of RejectTask (tests C7): the rejection stores a record and
\* sends nothing.
RejectTaskSilently(t) ==
    /\ active_tasks' = Put(active_tasks, t,
                           [drone |-> None, status |-> "REJECTED", url |-> {}])
    /\ NoEmit
    /\ hpc' = "reject_rpc"
    /\ UNCHANGED <<mw_active, store, runs, lastReq>>

\* TaskManager._reject_task
RejectTask(t) ==
    /\ Emit(t, "STATUS_DONE_NOT_OK", 0, "reject")
    /\ hpc' = "reject_rpc"
    /\ UNCHANGED <<active_tasks, mw_active, store, runs, lastReq>>

\* task_manager.py:163-194: validation, the Task record, STATUS_ACK
HandleExecute(req) ==
    IF req.task = None
    THEN /\ hpc' = "idle"
         /\ NoEmit
         /\ UNCHANGED lastReq
         /\ UNCHANGED <<active_tasks, mw_active, store, runs>>
    ELSE IF req.drone = None \/ req.drone \notin supervisor.connectors
    THEN RejectTask(req.task)
    ELSE /\ active_tasks' = Put(active_tasks, req.task,
                                [drone |-> req.drone, status |-> "ACCEPTED",
                                 url |-> req.url])
         /\ Emit(req.task, "STATUS_ACK", 0, "ack")
         /\ hpc' = "ack_rpc"
         /\ UNCHANGED <<mw_active, store, runs, lastReq>>

\* Faulty variant of CancelTask (tests C10): a cancel_request is answered
\* whether or not its task is tracked.
CancelTaskAlways(req) ==
    /\ Emit(IF req.task = None THEN "T1" ELSE req.task,
            "STATUS_DONE_NOT_OK", 0, "cancel")
    /\ hpc' = "cancel_rpc"
    /\ UNCHANGED <<active_tasks, mw_active, store, runs, lastReq>>

\* ghost: the executions of task t whose Executor is running are marked
MarkCancelled(t) ==
    [r \in DOMAIN runs |->
        IF runs[r].task = t /\ runs[r].pc \in ExecutorPcs
        THEN [runs[r] EXCEPT !.cancelled = TRUE] ELSE runs[r]]

\* TaskManager._cancel_task up to its first await; DroneMiddleware.stop_task
\* returns at once when the drone has no entry (middleware.py:224-225).
CancelTask(req) ==
    IF req.task = None \/ req.task \notin DOMAIN active_tasks
    THEN /\ hpc' = "idle"
         /\ NoEmit
         /\ UNCHANGED lastReq
         /\ UNCHANGED <<active_tasks, mw_active, store, runs>>
    ELSE LET d == active_tasks[req.task].drone IN
         /\ lastReq' = [req EXCEPT !.drone = d]
         /\ runs' = MarkCancelled(req.task)
         /\ UNCHANGED <<active_tasks, mw_active, store>>
         /\ IF d \in DOMAIN mw_active
            THEN hpc' = "cancel_rtl" /\ NoEmit
            ELSE /\ hpc' = "cancel_rpc"
                 /\ Emit(req.task, "STATUS_DONE_NOT_OK", 0, "cancel")

\* task_manager.py:89-106
HandleComplete(req) ==
    IF req.task = None \/ req.task \notin DOMAIN active_tasks
    THEN /\ hpc' = "idle"
         /\ NoEmit
         /\ UNCHANGED lastReq
         /\ UNCHANGED <<active_tasks, mw_active, store, runs>>
    ELSE /\ Emit(req.task, "STATUS_DONE_OK", 100, "complete")
         /\ hpc' = "complete_rpc"
         /\ UNCHANGED <<active_tasks, mw_active, store, runs, lastReq>>

\* Faulty variant of HandleTask (tests C8): an execute_request without task_id
\* is answered with a rejection.
HandleTaskRejectsNoId ==
    /\ hpc = "recv"
    /\ UNCHANGED <<is_connected, armed, errors, waits, others, nreq>>
    /\ IF lastReq.type = "execute" /\ lastReq.task = None
       THEN RejectTask("T1")
       ELSE /\ hpc' = "idle"
            /\ NoEmit
            /\ UNCHANGED <<active_tasks, mw_active, store, runs, lastReq>>

\* The requests the handler returns from without an await: a keep-alive, an
\* execute_request without task_id, a cancel or complete for no tracked task.
NoAction(req) ==
    \/ ~Forwarded(req)
    \/ req.task = None
    \/ req.type \in {"cancel", "complete"} /\ req.task \notin DOMAIN active_tasks

\* watch_tasks hands the request it received to TaskManager._handle_task,
\* which runs to its first await.  lastReq holds the request until the next
\* one arrives (a handler that awaited an RPC has dropped it on return).
HandleTask ==
    /\ hpc = "recv"
    /\ UNCHANGED <<is_connected, armed, errors, waits, others>>
    /\ nreq' = IF NoAction(lastReq) THEN nreq ELSE nreq + 1
    /\ IF ~Forwarded(lastReq)
       THEN /\ hpc' = "idle"
            /\ NoEmit
            /\ UNCHANGED lastReq
            /\ UNCHANGED <<active_tasks, mw_active, store, runs>>
       ELSE IF lastReq.type = "cancel" THEN CancelTask(lastReq)
       ELSE IF lastReq.type = "complete" THEN HandleComplete(lastReq)
       ELSE HandleExecute(lastReq)

\* Task ids and drone ids are interchangeable names: the C2 uses T1 before
\* T2 and, of the managed drones, d1 before d2.
KnownTasks == {t \in TaskIds : sent[t] # <<>>}
UsedDrones ==
    {d \in Drones :
        \/ d \in DOMAIN store /\ store[d].task_status # "NONE"
        \/ d \in DOMAIN mw_active
        \/ \E t \in DOMAIN active_tasks : active_tasks[t].drone = d
        \/ \E r \in DOMAIN runs : runs[r].drone = d}
InOrder(req) ==
    /\ req.task = "T2" => "T1" \in KnownTasks
    /\ req.drone = "d2" =>
           ("d1" \in UsedDrones \/ "d1" \notin supervisor.connectors)

\* The long poll returns req.  A coroutine created by the previous handler
\* is already on the event loop's ready queue and runs first.
Listen(req) ==
    /\ hpc = "idle"
    /\ nreq < MaxRequests \/ NoAction(req)
    /\ InOrder(req)
    /\ \A r \in DOMAIN runs : runs[r].pc # "start"
    /\ lastReq' = req
    /\ hpc' = "recv"
    /\ NoEmit
    /\ errors' = 0
    /\ waits' = <<>>
    /\ UNCHANGED <<is_connected, armed, others, active_tasks, mw_active, store,
                   runs, nreq>>

\* task_manager.py:197-203: the ACK RPC returned; sleep 0.1 s; STATUS_WILCO
AckRpc ==
    /\ hpc = "ack_rpc"
    /\ Emit(lastReq.task, "STATUS_WILCO", 0, "wilco")
    /\ hpc' = "wilco_rpc"
    /\ UNCHANGED <<is_connected, armed, errors, waits, others, active_tasks, mw_active, store, runs,
                   lastReq, nreq>>

NewRun(req) ==
    [task |-> req.task, drone |-> req.drone, kind |-> TaskTypeOf(req.url),
     params |-> req.params, pc |-> "start", idx |-> 0, is_running |-> FALSE,
     result |-> FALSE, cancelled |-> FALSE, disarmed |-> FALSE]

\* task_manager.py:205-219: the WILCO RPC returned; create_task(_execute_task)
WilcoRpc ==
    /\ hpc = "wilco_rpc"
    /\ runs' = Append(runs, NewRun(lastReq))
    /\ hpc' = "idle"
    /\ lastReq' = NoReq
    /\ NoEmit
    /\ UNCHANGED <<is_connected, armed, errors, waits, others, active_tasks, mw_active, store, nreq>>

\* _reject_task: the RPC returned
RejectRpc ==
    /\ hpc = "reject_rpc"
    /\ hpc' = "idle"
    /\ lastReq' = NoReq
    /\ NoEmit
    /\ UNCHANGED <<is_connected, armed, errors, waits, others, active_tasks, mw_active, store, runs, nreq>>

\* middleware.py:235-242 then task_manager.py:419: ReturnToLaunch returned
CancelRtl ==
    /\ hpc = "cancel_rtl"
    /\ store' = DirectWrite(store, lastReq.drone, None, "CANCELLED")
    /\ mw_active' = Del(mw_active, lastReq.drone)
    /\ Emit(lastReq.task, "STATUS_DONE_NOT_OK", 0, "cancel")
    /\ hpc' = "cancel_rpc"
    /\ UNCHANGED <<is_connected, armed, errors, waits, others, active_tasks, runs, lastReq, nreq>>

\* task_manager.py:422: the RPC returned; the record is deleted (a KeyError
\* is caught at 426)
CancelRpc ==
    /\ hpc = "cancel_rpc"
    /\ active_tasks' = Del(active_tasks, lastReq.task)
    /\ hpc' = "idle"
    /\ lastReq' = NoReq
    /\ NoEmit
    /\ UNCHANGED <<is_connected, armed, errors, waits, others, mw_active, store, runs, nreq>>

\* Faulty variant of CompleteRpc (tests C9): the record survives the
\* complete_request.
CompleteRpcKeepsRecord ==
    /\ hpc = "complete_rpc"
    /\ hpc' = "idle"
    /\ lastReq' = NoReq
    /\ NoEmit
    /\ UNCHANGED <<is_connected, armed, errors, waits, others, active_tasks, mw_active, store, runs, nreq>>

\* task_manager.py:103 (a KeyError is caught at 221)
CompleteRpc ==
    /\ hpc = "complete_rpc"
    /\ active_tasks' = Del(active_tasks, lastReq.task)
    /\ hpc' = "idle"
    /\ lastReq' = NoReq
    /\ NoEmit
    /\ UNCHANGED <<is_connected, armed, errors, waits, others, mw_active, store, runs, nreq>>

\* ------------------------------------------------------- executions
SetRun(r, pc, idx) == [runs EXCEPT ![r].pc = pc, ![r].idx = idx]

\* middleware.py:158-177 and 188-194: the Executor is created and entered;
\* it awaits the first telemetry read of pre_flight_check.
StartExecutor(r, st, mw) ==
    LET run == runs[r]
        id == MwTaskId(run.drone, run.kind, r) IN
    /\ mw_active' = Put(mw, run.drone, id)
    /\ store' = DirectWrite(st, run.drone, id, "IN_PROGRESS")
    /\ runs' = [runs EXCEPT ![r].pc = "preflight", ![r].is_running = TRUE]

\* task_manager.py:295: _execute_task starts and sends STATUS_EXECUTING
ExecStart(r) ==
    /\ runs[r].pc = "start"
    /\ Emit(runs[r].task, "STATUS_EXECUTING", 0, "exec")
    /\ runs' = SetRun(r, "exec_rpc", 0)
    /\ UNCHANGED <<is_connected, armed, errors, waits, others, active_tasks, mw_active, store, hpc,
                   lastReq, nreq>>

\* task_manager.py:337-339: the except branch sends STATUS_DONE_NOT_OK
ExceptBranch(r) ==
    /\ Emit(runs[r].task, "STATUS_DONE_NOT_OK", 0, "except")
    /\ runs' = [runs EXCEPT ![r].pc = "fail_rpc", ![r].is_running = FALSE]
    /\ UNCHANGED <<active_tasks, mw_active, store>>

\* task_manager.py:296-315 and middleware.py:146-156: the EXECUTING RPC
\* returned.  The record write raises KeyError when the record is gone.
ExecRpc(r) ==
    LET run == runs[r] IN
    /\ run.pc = "exec_rpc"
    /\ UNCHANGED <<is_connected, armed, errors, waits, others, hpc, lastReq, nreq>>
    /\ IF run.task \notin DOMAIN active_tasks
       THEN ExceptBranch(r)
       ELSE LET st == UpdateTaskStatus(store, run.drone, run.task,
                                       "EXECUTING", 0) IN
            /\ active_tasks' =
                   [active_tasks EXCEPT ![run.task].status = "IN_PROGRESS"]
            /\ NoEmit
            /\ IF run.drone \in DOMAIN mw_active
               THEN /\ runs' = SetRun(r, "stop_rtl", 0)
                    /\ store' = st
                    /\ UNCHANGED mw_active
               ELSE StartExecutor(r, st, mw_active)

\* middleware.py:235-242: stop_task's ReturnToLaunch returned (a KeyError at
\* 242 is caught at 247); then the new Executor is started.
StopRtl(r) ==
    LET run == runs[r] IN
    /\ run.pc = "stop_rtl"
    /\ StartExecutor(r, DirectWrite(store, run.drone, None, "CANCELLED"),
                     Del(mw_active, run.drone))
    /\ NoEmit
    /\ UNCHANGED <<is_connected, armed, errors, waits, others, active_tasks, hpc, lastReq, nreq>>

\* middleware.py:196-206 and task_manager.py:317-326: execute() returned
\* `success`; _run_task writes the state and drops the drone's entry; the
\* terminal status is sent.
Finish(r, success) ==
    LET run == runs[r] IN
    /\ store' = DirectWrite(store, run.drone, None,
                            IF success THEN "COMPLETED" ELSE "FAILED")
    /\ mw_active' = Del(mw_active, run.drone)
    /\ IF success
       THEN Emit(run.task, "STATUS_DONE_OK", 100, "done")
       ELSE Emit(run.task, "STATUS_DONE_NOT_OK", 0, "done")
    /\ runs' = [runs EXCEPT ![r].pc = "done_rpc", ![r].result = success,
                             ![r].is_running = FALSE]
    /\ UNCHANGED active_tasks

\* One primitive of the Executor returns with outcome ok.  A pre_flight_check
\* that succeeds has seen the drone armed, or has armed it (base.py:69-84).
ExecutorStep(r) ==
    /\ runs[r].pc \in ExecutorPcs
    /\ UNCHANGED <<is_connected, errors, waits, others, hpc, lastReq, nreq>>
    /\ \E ok \in BOOLEAN :
         LET nx == ExecutorNext(runs[r], ok) IN
         /\ armed' = IF runs[r].pc = "preflight" /\ ok
                      THEN [armed EXCEPT ![runs[r].drone] = TRUE] ELSE armed
         /\ IF nx.ret = "run"
            THEN /\ runs' = SetRun(r, nx.pc, nx.idx)
                 /\ NoEmit
                 /\ UNCHANGED <<active_tasks, mw_active, store>>
            ELSE Finish(r, nx.ret = "ok")

\* task_manager.py:320-333 / 327-333: the terminal RPC returned
DoneRpc(r) ==
    LET run == runs[r] IN
    /\ run.pc = "done_rpc"
    /\ UNCHANGED <<is_connected, armed, errors, waits, others, hpc, lastReq, nreq>>
    /\ IF run.task \notin DOMAIN active_tasks
       THEN ExceptBranch(r)
       ELSE /\ active_tasks' =
                  [active_tasks EXCEPT ![run.task].status =
                       IF run.result THEN "COMPLETED" ELSE "FAILED"]
            /\ store' = IF run.result
                        THEN UpdateTaskStatus(store, run.drone, None,
                                              "COMPLETED", 100)
                        ELSE UpdateTaskStatus(store, run.drone, None,
                                              "FAILED", 0)
            /\ runs' = SetRun(r, "retain", 0)
            /\ NoEmit
            /\ UNCHANGED mw_active

\* A coroutine that has returned keeps no state.
EndRun ==
    [task |-> None, drone |-> None, kind |-> None, params |-> FALSE,
     pc |-> "end", idx |-> 0, is_running |-> FALSE, result |-> FALSE,
     cancelled |-> FALSE, disarmed |-> FALSE]

\* task_manager.py:333-335: the 60 s have passed
Retain(r) ==
    /\ runs[r].pc = "retain"
    /\ active_tasks' = Del(active_tasks, runs[r].task)
    /\ runs' = [runs EXCEPT ![r] = EndRun]
    /\ NoEmit
    /\ UNCHANGED <<is_connected, armed, errors, waits, others, mw_active, store, hpc, lastReq, nreq>>

\* task_manager.py:340-343: the except branch's RPC returned
FailRpc(r) ==
    LET run == runs[r] IN
    /\ run.pc = "fail_rpc"
    /\ active_tasks' =
           IF run.task \in DOMAIN active_tasks
           THEN [active_tasks EXCEPT ![run.task].status = "FAILED"]
           ELSE active_tasks
    /\ store' = UpdateTaskStatus(store, run.drone, None, "FAILED", 0)
    /\ runs' = [runs EXCEPT ![r] = EndRun]
    /\ NoEmit
    /\ UNCHANGED <<is_connected, armed, errors, waits, others, mw_active, hpc, lastReq, nreq>>

Next ==
    \/ \E req \in Requests : Listen(req)
    \/ HandleTask
    \/ AckRpc
    \/ WilcoRpc
    \/ RejectRpc
    \/ CancelRtl
    \/ CancelRpc
    \/ CompleteRpc
    \/ \E r \in DOMAIN runs : ExecStart(r)
    \/ \E r \in DOMAIN runs : ExecRpc(r)
    \/ \E r \in DOMAIN runs : StopRtl(r)
    \/ \E r \in DOMAIN runs : ExecutorStep(r)
    \/ \E r \in DOMAIN runs : DoneRpc(r)
    \/ \E r \in DOMAIN runs : Retain(r)
    \/ \E r \in DOMAIN runs : FailRpc(r)

Spec == Init /\ [][Next]_vars

\* ------------------------------------------------------- RPC failures
\* The call sites whose coroutine is awaiting the RPC of its update.
AwaitingRpc ==
    {hpc} \cup {runs[r].pc : r \in DOMAIN runs}

RpcPcOf(src) ==
    CASE src = "ack" -> "ack_rpc"
      [] src = "wilco" -> "wilco_rpc"
      [] src = "reject" -> "reject_rpc"
      [] src = "cancel" -> "cancel_rpc"
      [] src = "complete" -> "complete_rpc"
      [] src = "exec" -> "exec_rpc"
      [] src = "done" -> "done_rpc"
      [] src = "except" -> "fail_rpc"
      [] OTHER -> None

\* lattice.py:1310-1329: the RPC of the latest request fails while its caller
\* awaits it; update_task_status returns False, the counter keeps its value
\* and no caller reads the result.
RpcFail ==
    /\ last_update.ok
    /\ RpcPcOf(last_update.src) \in AwaitingRpc
    /\ last_update' = [last_update EXCEPT !.ok = FALSE]
    /\ UNCHANGED <<status_version_counter, is_connected, armed, errors, waits, others, sent, active_tasks,
                   mw_active, store, runs, hpc, lastReq, nreq>>

SpecRpc == Init /\ [][Next \/ RpcFail]_vars

\* ------------------------------------------------------- disarm
\* The primitives an Executor awaits once pre_flight_check has armed the drone.
AirbornePcs == ExecutorPcs \ {"preflight"}

\* The flight controller disarms drone d while an Executor is flying it: the
\* armed stream read by get_telemetry turns from true to false.  No code of
\* the agent runs; ghost: the executions flying d are marked.
Disarm(d) ==
    /\ armed[d]
    /\ \E r \in DOMAIN runs : runs[r].drone = d /\ runs[r].pc \in AirbornePcs
    /\ armed' = [armed EXCEPT ![d] = FALSE]
    /\ runs' = [r \in DOMAIN runs |->
                   IF runs[r].drone = d /\ runs[r].pc \in AirbornePcs
                   THEN [runs[r] EXCEPT !.disarmed = TRUE] ELSE runs[r]]
    /\ UNCHANGED <<status_version_counter, is_connected, last_update, sent,
                   active_tasks, mw_active, store, hpc, lastReq, nreq, errors,
                   waits, others>>

SpecDisarm == Init /\ [][Next \/ \E d \in Drones : Disarm(d)]_vars

\* ------------------------------------------------------- progress reports
\* _execute_task hands the callback made by _create_progress_reporter to the
\* Executor in task_params["progress_callback"].  No Executor of tasks/ calls
\* it, so it is no action of Next; the actions below are the callback as an
\* Executor that reported progress would drive it.
MaxReports == 3
\* progress values, in percent
Progresses == {0, 50, 100}

\* The state in which the callback is first called: T1 is executing on d1,
\* its mapping Executor is in flight (the state Spec reaches by Listen,
\* HandleTask, AckRpc, WilcoRpc, ExecStart, ExecRpc and one ExecutorStep).
InitProgress ==
    /\ PublisherIdle
    /\ status_version_counter = 4
    /\ is_connected = TRUE
    /\ last_update = [task |-> "T1", status |-> "STATUS_EXECUTING",
                      progress |-> 0, version |-> 4, src |-> "exec",
                      ok |-> TRUE, prev_ok |-> TRUE]
    /\ sent = [t \in TaskIds |->
                 IF t = "T1"
                 THEN <<[status |-> "STATUS_ACK", progress |-> 0, src |-> "ack"],
                        [status |-> "STATUS_WILCO", progress |-> 0,
                         src |-> "wilco"],
                        [status |-> "STATUS_EXECUTING", progress |-> 0,
                         src |-> "exec"]>>
                 ELSE <<>>]
    /\ active_tasks = [t \in {"T1"} |->
                         [drone |-> "d1", status |-> "IN_PROGRESS",
                          url |-> {"Monitor"}]]
    /\ mw_active = [d \in {"d1"} |-> MwTaskId("d1", "mapping", 1)]
    /\ store = [d \in Drones |->
                  IF d = "d1"
                  THEN [NewDroneState EXCEPT
                          !.current_task = MwTaskId("d1", "mapping", 1),
                          !.task_status = "IN_PROGRESS"]
                  ELSE NewDroneState]
    /\ runs = <<[task |-> "T1", drone |-> "d1", kind |-> "mapping",
                 params |-> FALSE, pc |-> "takeoff", idx |-> 0,
                 is_running |-> TRUE, result |-> FALSE, cancelled |-> FALSE,
                 disarmed |-> FALSE]>>
    /\ hpc = "idle"
    /\ lastReq = NoReq
    /\ nreq = 1
    /\ armed = [d \in Drones |-> TRUE]
    /\ notified = <<>>
    /\ reporter = NoReport

\* task_manager.py:347-361: report_progress(p) writes the State Store and
\* awaits the drone's telemetry
ReportProgress(p) ==
    /\ reporter.pc = "idle"
    /\ Len(sent[runs[1].task]) < 3 + MaxReports
    /\ store' = UpdateTaskStatus(store, runs[1].drone, runs[1].task,
                                 "EXECUTING", p)
    /\ reporter' = [pc |-> "telemetry", progress |-> p]
    /\ NoEmit
    /\ UNCHANGED <<is_connected, active_tasks, mw_active, runs, hpc, lastReq,
                   nreq, armed, notified, pubvars, listenvars,
                   extra>>

\* task_manager.py:362-382: the telemetry arrived (tel_ok: get_telemetry
\* returned a snapshot with an armed field); a disarmed drone fails the task,
\* otherwise STATUS_EXECUTING is sent with the reported progress
ReportTelemetry ==
    /\ reporter.pc = "telemetry"
    /\ \E tel_ok \in BOOLEAN :
          IF tel_ok /\ ~armed[runs[1].drone]
          THEN /\ Emit(runs[1].task, "STATUS_DONE_NOT_OK", 0, "disarm")
               /\ reporter' = [reporter EXCEPT !.pc = "disarm_rpc"]
          ELSE /\ Emit(runs[1].task, "STATUS_EXECUTING", reporter.progress,
                       "progress")
               /\ reporter' = [reporter EXCEPT !.pc = "progress_rpc"]
    /\ UNCHANGED <<is_connected, active_tasks, mw_active, store, runs, hpc,
                   lastReq, nreq, armed, notified, pubvars, listenvars,
                   extra>>

\* task_manager.py:369-373: the RPC of the auto-failure returned
ReportDisarmRpc ==
    /\ reporter.pc = "disarm_rpc"
    /\ active_tasks' =
           IF runs[1].task \in DOMAIN active_tasks
           THEN [active_tasks EXCEPT ![runs[1].task].status = "FAILED"]
           ELSE active_tasks
    /\ store' = UpdateTaskStatus(store, runs[1].drone, None, "FAILED", 0)
    /\ reporter' = NoReport
    /\ NoEmit
    /\ UNCHANGED <<is_connected, mw_active, runs, hpc, lastReq, nreq, armed,
                   notified, pubvars, listenvars,
                   extra>>

\* task_manager.py:377-384: the RPC of the progress update returned
ReportProgressRpc ==
    /\ reporter.pc = "progress_rpc"
    /\ reporter' = NoReport
    /\ NoEmit
    /\ UNCHANGED <<is_connected, active_tasks, mw_active, store, runs, hpc,
                   lastReq, nreq, armed, notified, pubvars, listenvars,
                   extra>>

NextProgress ==
    \/ \E p \in Progresses : ReportProgress(p)
    \/ ReportTelemetry
    \/ ReportDisarmRpc
    \/ ReportProgressRpc
    \/ \E d \in Drones : Disarm(d)

SpecProgress == InitProgress /\ [][NextProgress]_vars

\* ------------------------------------------------------- State Store API
\* The four writing operations of StateManager, called with arbitrary
\* arguments while one subscriber is registered
\* (register_state_change_callback); `notified` is what it was called with.
MaxNotified == 2

\* the record of drone d as passed to a subscriber: {record}, or {} for None
Rec(st, d) == IF d \in DOMAIN st THEN {st[d]} ELSE {}

\* StateManager._notify_state_change
NotifyStateChange(d, old, new) ==
    notified' = Append(notified, [drone |-> d, old |-> old, new |-> new])

\* the DroneState objects a caller registers
DroneStates == {[NewDroneState EXCEPT !.armed = a] : a \in BOOLEAN}

\* StateManager.update_drone_state
UpdateDroneState(d, rec) ==
    /\ Len(notified) < MaxNotified
    /\ store' = Put(store, d, rec)
    /\ NotifyStateChange(d, Rec(store, d), {rec})
    /\ UNCHANGED <<status_version_counter, is_connected, last_update, sent,
                   active_tasks, mw_active, runs, hpc, lastReq, nreq, armed,
                   reporter, pubvars, listenvars,
                   extra>>

\* StateManager.remove_drone
RemoveDrone(d) ==
    /\ Len(notified) < MaxNotified
    /\ d \in DOMAIN store
    /\ store' = Del(store, d)
    /\ NotifyStateChange(d, {store[d]}, {})
    /\ UNCHANGED <<status_version_counter, is_connected, last_update, sent,
                   active_tasks, mw_active, runs, hpc, lastReq, nreq, armed,
                   reporter, pubvars, listenvars,
                   extra>>

\* StateManager.update_telemetry: the fields present in telemetry_data are
\* merged into the record (has_armed: the data has an "armed" key, a: its
\* value)
UpdateTelemetry(d, has_armed, a) ==
    /\ d \in DOMAIN store
    /\ store' = IF has_armed THEN [store EXCEPT ![d].armed = a] ELSE store
    /\ UNCHANGED <<status_version_counter, is_connected, last_update, sent,
                   active_tasks, mw_active, runs, hpc, lastReq, nreq, armed,
                   notified, reporter, pubvars, listenvars,
                   extra>>

\* StateManager.update_task_status, called by any client
StoreUpdateTaskStatus(d, t, status, p) ==
    /\ d \in DOMAIN store
    /\ store' = UpdateTaskStatus(store, d, t, status, p)
    /\ UNCHANGED <<status_version_counter, is_connected, last_update, sent,
                   active_tasks, mw_active, runs, hpc, lastReq, nreq, armed,
                   notified, reporter, pubvars, listenvars,
                   extra>>

NextStore ==
    \/ \E d \in Drones, rec \in DroneStates : UpdateDroneState(d, rec)
    \/ \E d \in Drones : RemoveDrone(d)
    \/ \E d \in Drones, has_armed, a \in BOOLEAN :
           UpdateTelemetry(d, has_armed, a)
    \/ \E p \in {0, 50} : StoreUpdateTaskStatus("d1", "T1", "EXECUTING", p)
    \/ \E d \in Drones : StoreUpdateTaskStatus(d, None, "FAILED", 0)

SpecStore == Init /\ [][NextStore]_vars

\* ------------------------------------------------------- routing
\* The execute_requests over every specification URL: the long poll has
\* returned one of them as the first request and the handler is about to run.
RoutedRequests ==
    [type : {"execute"}, task : {"T1"}, drone : {"d1", Unmanaged},
     url : SUBSET Keywords, params : BOOLEAN]

InitRoute ==
    /\ PublisherIdle
    /\ lastReq \in RoutedRequests
    /\ hpc = "recv"
    /\ status_version_counter = 1
    /\ is_connected = TRUE
    /\ last_update = NoUpdate
    /\ sent = [t \in TaskIds |-> <<>>]
    /\ active_tasks = Empty
    /\ mw_active = Empty
    /\ store = [d \in Drones |-> NewDroneState]
    /\ runs = <<>>
    /\ nreq = 0
    /\ armed = [d \in Drones |-> TRUE]
    /\ notified = <<>>
    /\ reporter = NoReport

\* TaskManager._handle_task for that request, up to the create_task of its
\* execution and the first step of _execute_task.
NextRoute ==
    \/ HandleTask
    \/ AckRpc
    \/ WilcoRpc
    \/ RejectRpc
    \/ \E r \in DOMAIN runs : ExecStart(r)

SpecRoute == InitRoute /\ [][NextRoute]_vars

\* ------------------------------------------------------- Asset Publisher
\* Position ticks read by the publish loops in one behaviour.
MaxTicks == 3

\* the state of the Task Agent, the executions and the State Store
agent == <<status_version_counter, is_connected, last_update, sent,
           active_tasks, mw_active, store, runs, hpc, lastReq, nreq, armed,
           notified, reporter, listenvars, extra>>

\* Coordinates are in units of 1e-6 degree, so the threshold of the validity
\* test is 1.  The ticks of the position stream: 0/0 before the GPS is ready,
\* a coordinate exactly at the threshold, and two valid positions.
Zero == [lat |-> 0, lon |-> 0]
Ticks ==
    {Zero, [lat |-> 1, lon |-> 8], [lat |-> 47, lon |-> 1],
     [lat |-> 47, lon |-> 8], [lat |-> 0 - 47, lon |-> 8]}

Abs(x) == IF x < 0 THEN 0 - x ELSE x

\* abs(lat) > 1e-6 and abs(lon) > 1e-6
AbsOk(pos) == Abs(pos.lat) > 1 /\ Abs(pos.lon) > 1

\* get_telemetry's write of _last_valid_position for one tick, kept for
\* comparison: a cache that follows every tick
LastValidAfterAnyTick(cache, pos) == {pos}

\* get_telemetry's write of _last_valid_position for one tick
LastValidAfter(cache, pos) == IF AbsOk(pos) THEN {pos} ELSE cache

\* the position get_telemetry puts in its result for one tick
PositionOf(cache, pos) == IF AbsOk(pos) THEN {pos} ELSE cache

\* MAVSDKConnector.get_telemetry called by the publish loop for drone d: the
\* position stream yields pos; a later stream raises when fails, and the
\* call then returns {} (no "position" key), the cache write being kept.
GetTelemetry(d, pos, fails) ==
    /\ publisher.pc = "idle"
    /\ Len(ticks["d1"]) + Len(ticks["d2"]) < MaxTicks
    /\ ticks' = [ticks EXCEPT ![d] = Append(@, pos)]
    /\ last_valid_position' =
           [last_valid_position EXCEPT ![d] = LastValidAfter(@, pos)]
    /\ publisher' =
           [pc |-> "snapshot", drone |-> d, failed |-> fails,
            position |-> IF fails THEN {}
                         ELSE PositionOf(last_valid_position[d], pos)]
    /\ UNCHANGED <<agent, client, use_grpc, last_good_location, published>>

\* entity_manager: pos = telemetry_live.get("position", {}); lat/lon from it
\* when truthy, else from drone_state.position, which is never written and
\* stays Position(0.0, 0.0).
LatLon(position) == IF position = {} THEN Zero ELSE CHOOSE p \in position : TRUE

\* one PublishEntity request
Request(d, pos, semi_major, via) ==
    [drone |-> d, location |-> pos, uncertainty |-> semi_major, via |-> via]

\* LatticeConnector.publish_entity(d, {"position": lat/lon}) up to its first
\* await.  A valid lat/lon is cached first.  REST: a valid position goes out
\* as it is, an invalid one is replaced by the cached location with a 1000 m
\* error ellipse, and without a cached location the publish is skipped.
\* Without a REST client the gRPC branch builds Position(lat, lon) as given.
PublishEntity ==
    /\ publisher.pc = "snapshot"
    /\ is_connected
    /\ LET d == publisher.drone
           pos == LatLon(publisher.position)
           cache == IF AbsOk(pos) THEN {pos} ELSE last_good_location[d]
       IN  /\ last_good_location' = [last_good_location EXCEPT ![d] = cache]
           /\ IF client
              THEN IF AbsOk(pos)
                   THEN /\ published' = Append(published, Request(d, pos, 0, "rest"))
                        /\ publisher' = [publisher EXCEPT !.pc = "rest",
                                                          !.position = {pos}]
                   ELSE IF cache # {}
                   THEN /\ published' =
                               Append(published,
                                      Request(d, CHOOSE c \in cache : TRUE,
                                              1000, "rest"))
                        /\ publisher' = [publisher EXCEPT !.pc = "rest",
                                                          !.position = {pos}]
                   ELSE /\ published' = published
                        /\ publisher' = NoPublish
              ELSE IF use_grpc
                   THEN /\ published' = Append(published, Request(d, pos, 0, "grpc"))
                        /\ publisher' = [publisher EXCEPT !.pc = "grpc",
                                                          !.position = {pos}]
                   ELSE /\ published' = published
                        /\ publisher' = NoPublish
    /\ UNCHANGED <<agent, client, use_grpc, ticks, last_valid_position>>

\* publish_entity when the connector is not connected: return False
PublishNotConnected ==
    /\ publisher.pc = "snapshot"
    /\ ~is_connected
    /\ publisher' = NoPublish
    /\ UNCHANGED <<agent, client, use_grpc, ticks, last_valid_position,
                   last_good_location, published>>

\* client.entities.publish_entity returns
RestOk ==
    /\ publisher.pc = "rest"
    /\ publisher' = NoPublish
    /\ UNCHANGED <<agent, client, use_grpc, ticks, last_valid_position,
                   last_good_location, published>>

\* client.entities.publish_entity raises: the publish fails, unless gRPC is
\* enabled, in which case the gRPC branch runs with the lat/lon as given.
RestFail ==
    /\ publisher.pc = "rest"
    /\ IF use_grpc
       THEN /\ published' =
                   Append(published,
                          Request(publisher.drone, LatLon(publisher.position),
                                  0, "grpc"))
            /\ publisher' = [publisher EXCEPT !.pc = "grpc"]
       ELSE /\ published' = published
            /\ publisher' = NoPublish
    /\ UNCHANGED <<agent, client, use_grpc, ticks, last_valid_position,
                   last_good_location>>

\* entity_manager_stub.PublishEntity returns or raises
GrpcReturn ==
    /\ publisher.pc = "grpc"
    /\ publisher' = NoPublish
    /\ UNCHANGED <<agent, client, use_grpc, ticks, last_valid_position,
                   last_good_location, published>>

\* The publish loops of the Asset Publisher, nothing else running; connect()
\* has set the REST client and the gRPC stub as the build and the
\* configuration allow.
InitPublish ==
    /\ ExtraIdle
    /\ errors = 0
    /\ retry_count = 0
    /\ waits = <<>>
    /\ client \in BOOLEAN
    /\ use_grpc \in BOOLEAN
    /\ ticks = [d \in Drones |-> <<>>]
    /\ last_valid_position = [d \in Drones |-> {}]
    /\ last_good_location = [d \in Drones |-> {}]
    /\ publisher = NoPublish
    /\ published = <<>>
    /\ status_version_counter = 1
    /\ is_connected = TRUE
    /\ last_update = NoUpdate
    /\ sent = [t \in TaskIds |-> <<>>]
    /\ active_tasks = Empty
    /\ mw_active = Empty
    /\ store = [d \in Drones |-> NewDroneState]
    /\ runs = <<>>
    /\ hpc = "idle"
    /\ lastReq = NoReq
    /\ nreq = 0
    /\ armed = [d \in Drones |-> TRUE]
    /\ notified = <<>>
    /\ reporter = NoReport

NextPublish ==
    \/ \E d \in supervisor.registered, pos \in Ticks, fails \in BOOLEAN :
           GetTelemetry(d, pos, fails)
    \/ PublishEntity
    \/ RestOk
    \/ RestFail
    \/ GrpcReturn

SpecPublish == InitPublish /\ [][NextPublish]_vars

\* ------------------------------------------------------- listen-loop faults
\* Faults of the listen loop in one behaviour of SpecBackoff (enough for the
\* delay to reach its cap) and of SpecListen.
MaxErrors == 10
MaxFaults == 1

\* TaskManager.max_retries; base_retry_delay and max_retry_delay in units
\* of 0.1 s
max_retries == 3
base_retry_delay == 10
max_retry_delay == 600

RECURSIVE Pow2(_)
Pow2(n) == IF n = 0 THEN 1 ELSE 2 * Pow2(n - 1)

Min(a, b) == IF a < b THEN a ELSE b

\* watch_tasks polls over REST (lattice.py:1023-1027)
RestListen == client /\ ~use_grpc

\* one sleep of the listen loop: after the k-th consecutive error (k = 0:
\* after a long-poll timeout) it waits delay + jitter
Wait(k, delay, jitter) == [k |-> k, delay |-> delay, jitter |-> jitter]

\* start_task_watcher's delay for the value retry_count has after the error
WatcherDelay(rc) ==
    IF rc > max_retries
    THEN Min(base_retry_delay * Pow2(rc - max_retries), max_retry_delay)
    ELSE base_retry_delay

\* the jitter random.uniform may draw: its two extremes, and none when the
\* delay is the fixed base delay
Jitters(rc) == IF rc > max_retries THEN {0, WatcherDelay(rc) \div 10} ELSE {0}

\* The REST long poll times out (asyncio.TimeoutError, lattice.py:1098-1101):
\* sleep 0.1 s and poll again.
PollTimeout(n) ==
    /\ hpc = "idle"
    /\ is_connected /\ RestListen
    /\ Len(waits) < n
    /\ waits' = Append(waits, Wait(0, 1, 0))
    /\ UNCHANGED <<status_version_counter, is_connected, last_update, sent,
                   active_tasks, mw_active, store, runs, hpc, lastReq, nreq,
                   armed, errors, retry_count, notified, reporter, pubvars,
                   extra>>

\* Faulty variant of PollError (tests C22): the error handler forgets the
\* tracked tasks.
PollErrorForgetsTasks(n) ==
    /\ hpc = "idle"
    /\ is_connected /\ RestListen
    /\ Len(waits) < n
    /\ errors' = errors + 1
    /\ waits' = Append(waits, Wait(errors + 1, 10, 0))
    /\ active_tasks' = Empty
    /\ UNCHANGED <<status_version_counter, is_connected, last_update, sent,
                   mw_active, store, runs, hpc, lastReq, nreq,
                   armed, retry_count, notified, reporter, pubvars,
                   extra>>

\* The REST long poll raises (lattice.py:1102-1108): sleep 1 s and poll
\* again; nothing reaches start_task_watcher.
PollError(n) ==
    /\ hpc = "idle"
    /\ is_connected /\ RestListen
    /\ Len(waits) < n
    /\ errors' = errors + 1
    /\ waits' = Append(waits, Wait(errors + 1, 10, 0))
    /\ UNCHANGED <<status_version_counter, is_connected, last_update, sent,
                   active_tasks, mw_active, store, runs, hpc, lastReq, nreq,
                   armed, retry_count, notified, reporter, pubvars,
                   extra>>

\* watch_tasks raises to start_task_watcher (the gRPC stream fails, or
\* neither API is available): retry_count += 1 and the sleep of
\* task_manager.py:47-64.
WatchError(n, jitter) ==
    /\ hpc = "idle"
    /\ is_connected /\ ~RestListen
    /\ Len(waits) < n /\ retry_count < n
    /\ jitter \in Jitters(retry_count + 1)
    /\ errors' = errors + 1
    /\ retry_count' = retry_count + 1
    /\ waits' = Append(waits, Wait(errors + 1, WatcherDelay(retry_count + 1),
                                   jitter))
    /\ UNCHANGED <<status_version_counter, is_connected, last_update, sent,
                   active_tasks, mw_active, store, runs, hpc, lastReq, nreq,
                   armed, notified, reporter, pubvars,
                   extra>>

\* watch_tasks returns: the gRPC stream ended (task_manager.py:45)
WatchReturn ==
    /\ hpc = "idle"
    /\ is_connected /\ use_grpc /\ ~RestListen
    /\ retry_count # 0
    /\ retry_count' = 0
    /\ UNCHANGED <<status_version_counter, is_connected, last_update, sent,
                   active_tasks, mw_active, store, runs, hpc, lastReq, nreq,
                   armed, errors, waits, notified, reporter, pubvars,
                   extra>>

\* The listen loop alone, on either transport: faults and keep-alives, which
\* the handler returns from at once.
InitBackoff == InitPublish

NextBackoff ==
    \/ PollTimeout(MaxErrors)
    \/ PollError(MaxErrors)
    \/ \E j \in 0..(max_retry_delay \div 10) : WatchError(MaxErrors, j)
    \/ WatchReturn
    \/ Listen(NoReq)
    \/ HandleTask

SpecBackoff == InitBackoff /\ [][NextBackoff]_vars

\* The Task Agent with faults of its REST long poll.
ListenFault == PollTimeout(MaxFaults) \/ PollError(MaxFaults)

SpecListen == Init /\ [][Next \/ ListenFault]_vars

\* ------------------------------------------------------- concurrent updates
\* update_task_status calls in one behaviour of SpecOrder.
MaxUpdates == 4

\* the task and status a caller reports
CallOf(c) ==
    IF c = "exec1" THEN [task |-> "T1", status |-> "STATUS_EXECUTING", src |-> "exec"]
    ELSE IF c = "exec2" THEN [task |-> "T2", status |-> "STATUS_EXECUTING", src |-> "exec"]
    ELSE [task |-> "T1", status |-> "STATUS_DONE_NOT_OK", src |-> "cancel"]

\* LatticeConnector.update_task_status up to its await: the version is taken
\* and the REST call is handed to a worker thread by asyncio.to_thread.
CallUpdate(c) ==
    /\ calls[c].pc = "idle"
    /\ status_version_counter <= MaxUpdates
    /\ is_connected
    /\ Emit(CallOf(c).task, CallOf(c).status, 0, CallOf(c).src)
    /\ calls' = [calls EXCEPT ![c] = [pc |-> "thread",
                                      version |-> StatusVersion(CallOf(c).task)]]
    /\ UNCHANGED <<is_connected, active_tasks, mw_active, store, runs, hpc,
                   lastReq, nreq, armed, notified, reporter, pubvars,
                   listenvars, received,
                   supervisor, flightvars>>

\* The worker thread of caller c performs client.tasks.update_task_status:
\* the request reaches the C2.  The threads of the pool run concurrently,
\* each over its own connection.
Transmit(c) ==
    /\ calls[c].pc = "thread"
    /\ calls' = [calls EXCEPT ![c].pc = "sent"]
    /\ received' = Append(received, calls[c].version)
    /\ UNCHANGED <<status_version_counter, is_connected, last_update, sent,
                   active_tasks, mw_active, store, runs, hpc, lastReq, nreq,
                   armed, notified, reporter, pubvars, listenvars,
                   supervisor, flightvars>>

\* the await of caller c returns (or raises: return False)
CallReturn(c) ==
    /\ calls[c].pc = "sent"
    /\ calls' = [calls EXCEPT ![c] = NoCall]
    /\ UNCHANGED <<status_version_counter, is_connected, last_update, sent,
                   active_tasks, mw_active, store, runs, hpc, lastReq, nreq,
                   armed, notified, reporter, pubvars, listenvars, received,
                   supervisor, flightvars>>

NextOrder ==
    \/ \E c \in Callers : CallUpdate(c)
    \/ \E c \in Callers : Transmit(c)
    \/ \E c \in Callers : CallReturn(c)

\* Two Executors and the cancel handler, each calling update_task_status.
SpecOrder == Init /\ [][NextOrder]_vars

\* ------------------------------------------------------- shutdown
\* The request and the position tick of SpecShutdown.
ShutdownRequest ==
    [type |-> "execute", task |-> "T1", drone |-> "d1", url |-> {"Monitor"},
     params |-> FALSE]
ShutdownTick == [lat |-> 47, lon |-> 8]

\* shutdown()'s last block: every connector.disconnect(), then
\* LatticeConnector.disconnect(), which closes the gRPC channel and clears
\* is_connected only when there is a channel; no await suspends in it.
Disconnected(sup) ==
    [sup EXCEPT !.pc = "done", !.pending = {}, !.drone = None,
                !.sessions = {}]

LatticeDisconnect == IF use_grpc THEN FALSE ELSE is_connected

\* DroneMiddleware.shutdown up to its first suspension: the drones with an
\* active task are listed and stop_task of the first one awaits its RTL;
\* without active tasks shutdown runs to its end.
ShutdownBegin ==
    /\ supervisor.pc = "running"
    /\ IF mw_active = Empty
       THEN /\ supervisor' = Disconnected(supervisor)
            /\ is_connected' = LatticeDisconnect
       ELSE /\ \E d \in DOMAIN mw_active :
                   supervisor' = [supervisor EXCEPT !.pc = "rtl",
                                      !.pending = DOMAIN mw_active \ {d},
                                      !.drone = d]
            /\ UNCHANGED is_connected
    /\ UNCHANGED <<status_version_counter, last_update, sent, active_tasks,
                   mw_active, store, runs, hpc, lastReq, nreq, armed,
                   notified, reporter, pubvars, listenvars, ordervars,
                   flightvars>>

\* stop_task: return_to_launch returned; the record is written and the
\* entry deleted (a missing entry raises, which stop_task catches); then the
\* next listed drone, or the end of shutdown.
ShutdownRtl ==
    /\ supervisor.pc = "rtl"
    /\ LET d == supervisor.drone
           mw == Del(mw_active, d)
           todo == supervisor.pending \cap DOMAIN mw
       IN  /\ store' = DirectWrite(store, d, None, "CANCELLED")
           /\ mw_active' = mw
           /\ IF todo = {}
              THEN /\ supervisor' = Disconnected(supervisor)
                   /\ is_connected' = LatticeDisconnect
              ELSE /\ \E e \in todo :
                          supervisor' = [supervisor EXCEPT
                                             !.pending = supervisor.pending \ {e},
                                             !.drone = e]
                   /\ UNCHANGED is_connected
    /\ UNCHANGED <<status_version_counter, last_update, sent, active_tasks,
                   runs, hpc, lastReq, nreq, armed, notified, reporter,
                   pubvars, listenvars, ordervars,
                   flightvars>>

\* The middleware with one task requested and one drone publishing, and a
\* shutdown at any moment.
NextShutdown ==
    \/ ShutdownBegin
    \/ ShutdownRtl
    \/ Listen(ShutdownRequest)
    \/ HandleTask
    \/ AckRpc
    \/ WilcoRpc
    \/ \E r \in DOMAIN runs : ExecStart(r)
    \/ \E r \in DOMAIN runs : ExecRpc(r)
    \/ GetTelemetry("d1", ShutdownTick, FALSE)
    \/ PublishEntity
    \/ PublishNotConnected
    \/ RestOk
    \/ GrpcReturn

SpecShutdown == InitPublish /\ [][NextShutdown]_vars

\* ------------------------------------------------------- startup
\* DroneMiddleware.start at its call of _connect_drones: connected to the
\* C2, no drone connected, the services not yet created.
Starting ==
    [pc |-> "connect", pending |-> {}, drone |-> None, agent_running |-> FALSE,
     publisher_running |-> FALSE, sessions |-> {}, connectors |-> {},
     registered |-> {}, queue |-> <<"d1", "d2">>, failed |-> {}]

InitStartup ==
    /\ supervisor = Starting
    /\ store = Empty
    /\ preflight = NoPreflight
    /\ command = NoCommand
    /\ mapping = NoPattern
    /\ smoothing = NoSmoothing
    /\ flight = NoFlight
    /\ calls = [c \in Callers |-> NoCall]
    /\ received = <<>>
    /\ errors = 0
    /\ retry_count = 0
    /\ waits = <<>>
    /\ client = TRUE
    /\ use_grpc = FALSE
    /\ ticks = [d \in Drones |-> <<>>]
    /\ last_valid_position = [d \in Drones |-> {}]
    /\ last_good_location = [d \in Drones |-> {}]
    /\ publisher = NoPublish
    /\ published = <<>>
    /\ status_version_counter = 1
    /\ is_connected = TRUE
    /\ last_update = NoUpdate
    /\ sent = [t \in TaskIds |-> <<>>]
    /\ active_tasks = Empty
    /\ mw_active = Empty
    /\ runs = <<>>
    /\ hpc = "idle"
    /\ lastReq = NoReq
    /\ nreq = 0
    /\ armed = [d \in Drones |-> TRUE]
    /\ notified = <<>>
    /\ reporter = NoReport

\* Faulty variant of ConnectDrone (tests C26): a drone whose connect raised
\* is registered with the Publisher all the same.
ConnectDroneRegistersFailed(ok) ==
    /\ supervisor.pc = "connect"
    /\ supervisor.queue # <<>>
    /\ LET d == Head(supervisor.queue) IN
       /\ supervisor' =
              IF ok
              THEN [supervisor EXCEPT !.queue = Tail(@),
                                      !.sessions = @ \cup {d},
                                      !.connectors = @ \cup {d},
                                      !.registered = @ \cup {d}]
              ELSE [supervisor EXCEPT !.queue = Tail(@),
                                      !.registered = @ \cup {d},
                                      !.failed = @ \cup {d}]
       /\ store' = IF ok THEN Put(store, d, NewDroneState) ELSE store
    /\ UNCHANGED <<status_version_counter, is_connected, last_update, sent,
                   active_tasks, mw_active, runs, hpc, lastReq, nreq, armed,
                   notified, reporter, pubvars, listenvars, ordervars,
                   flightvars>>

\* One iteration of _connect_drones: connector.connect() returns (ok) or
\* raises.  On success the connector is stored, the DroneState is created
\* and the drone is registered with the Publisher; on failure the except
\* clause logs and the loop goes on (no state-change subscriber exists yet).
ConnectDrone(ok) ==
    /\ supervisor.pc = "connect"
    /\ supervisor.queue # <<>>
    /\ LET d == Head(supervisor.queue) IN
       /\ supervisor' =
              IF ok
              THEN [supervisor EXCEPT !.queue = Tail(@),
                                      !.sessions = @ \cup {d},
                                      !.connectors = @ \cup {d},
                                      !.registered = @ \cup {d}]
              ELSE [supervisor EXCEPT !.queue = Tail(@),
                                      !.failed = @ \cup {d}]
       /\ store' = IF ok THEN Put(store, d, NewDroneState) ELSE store
    /\ UNCHANGED <<status_version_counter, is_connected, last_update, sent,
                   active_tasks, mw_active, runs, hpc, lastReq, nreq, armed,
                   notified, reporter, pubvars, listenvars, ordervars,
                   flightvars>>

\* start() after _connect_drones: the publisher and the task watcher are
\* created and is_running is set.
StartServices ==
    /\ supervisor.pc = "connect"
    /\ supervisor.queue = <<>>
    /\ supervisor' = [supervisor EXCEPT !.pc = "running",
                                        !.agent_running = TRUE,
                                        !.publisher_running = TRUE]
    /\ UNCHANGED <<status_version_counter, is_connected, last_update, sent,
                   active_tasks, mw_active, store, runs, hpc, lastReq, nreq,
                   armed, notified, reporter, pubvars, listenvars, ordervars,
                   flightvars>>

\* Startup, then the listen loop with execute_requests for either drone and
\* the publish loop over the registered drones.
NextStartup ==
    \/ \E ok \in BOOLEAN : ConnectDrone(ok)
    \/ StartServices
    \/ \E d \in Drones :
           /\ supervisor.agent_running
           /\ Listen([ShutdownRequest EXCEPT !.drone = d])
    \/ HandleTask
    \/ AckRpc
    \/ WilcoRpc
    \/ RejectRpc
    \/ \E r \in DOMAIN runs : ExecStart(r)
    \/ \E r \in DOMAIN runs : ExecRpc(r)
    \/ \E d \in supervisor.registered :
           /\ supervisor.publisher_running
           /\ GetTelemetry(d, ShutdownTick, FALSE)
    \/ PublishEntity
    \/ RestOk

SpecStartup == InitStartup /\ [][NextStartup]_vars

\* ------------------------------------------------------- pre-flight
\* What a snapshot read by pre_flight_check may hold: armed (None counts as
\* not armed) and the GPS fix type, {} when the "gps" dict is empty (no fix
\* type reported, or get_telemetry returned {}).
GpsFixes == {{}, {0}, {2}, {3}, {4}}
PreflightSnapshots == [armed : BOOLEAN, gps : GpsFixes]

\* Faulty variant of GpsOk (tests C27): a 2D fix is accepted.
GpsOk2D(gps) == \E g \in gps : g >= 2

\* telemetry.get("gps", {}).get("fix_type", 0) >= 3
GpsOk(gps) == \E g \in gps : g >= 3

\* the executions of the three kinds, with and without parameters
PreflightRuns == [kind : {"mapping", "relay", "dropping"}, params : BOOLEAN]

\* execute() calls pre_flight_check, which awaits get_telemetry
PreflightStart(run) ==
    /\ preflight.pc = "idle"
    /\ preflight' = [NoPreflight EXCEPT !.pc = "telemetry", !.kind = run.kind,
                                        !.params = run.params]
    /\ UNCHANGED ground

\* execute() after pre_flight_check returned ok: on failure it returns
\* False; otherwise it runs to its first command, which it awaits.
AfterPreflight(pf, ok) ==
    LET nx == ExecutorNext([kind |-> pf.kind, pc |-> "preflight", idx |-> 0,
                            is_running |-> TRUE, params |-> pf.params], ok)
    IN  IF nx.ret = "run"
        THEN [pf EXCEPT !.pc = "flying", !.commands = Append(@, nx.pc)]
        ELSE [pf EXCEPT !.pc = "failed"]

\* get_telemetry returned snap: an armed drone goes to the GPS check, for a
\* disarmed one the Arm command is issued.
PreflightTelemetry(snap) ==
    /\ preflight.pc = "telemetry"
    /\ preflight' =
           IF snap.armed
           THEN AfterPreflight([preflight EXCEPT !.tel = snap], GpsOk(snap.gps))
           ELSE [preflight EXCEPT !.tel = snap, !.pc = "arm",
                                  !.commands = Append(@, "arm")]
    /\ UNCHANGED ground

\* arm() returned True ("ok") or False ("rejected"), or raised
PreflightArm(outcome) ==
    /\ preflight.pc = "arm"
    /\ preflight' =
           IF outcome = "ok"
           THEN [preflight EXCEPT !.arm = outcome, !.pc = "confirm"]
           ELSE AfterPreflight([preflight EXCEPT !.arm = outcome], FALSE)
    /\ UNCHANGED ground

\* the fresh snapshot: still disarmed fails; else the GPS check, on the fix
\* type of the first snapshot
PreflightConfirm(snap) ==
    /\ preflight.pc = "confirm"
    /\ preflight' =
           AfterPreflight([preflight EXCEPT !.confirm = snap.armed],
                          snap.armed /\ GpsOk(preflight.tel.gps))
    /\ UNCHANGED ground

NextPreflight ==
    \/ \E run \in PreflightRuns : PreflightStart(run)
    \/ \E snap \in PreflightSnapshots : PreflightTelemetry(snap)
    \/ \E outcome \in {"ok", "rejected", "raised"} : PreflightArm(outcome)
    \/ \E snap \in PreflightSnapshots : PreflightConfirm(snap)

SpecPreflight == Init /\ [][NextPreflight]_vars

\* --------------------------------------------------- adapter commands
\* How a call into the UAV library ends: it returns, the UAV rejects the
\* command (mavsdk.action.ActionError), or it raises any other exception
\* (a gRPC error of the mavsdk_server channel, for one).
Lib == {"ok", "ActionError", "Exception"}

Commands == {"arm", "disarm", "takeoff", "land", "return_to_launch",
             "goto_position"}

\* takeoff's altitude, in metres, and its timeouts, in samples one second
\* apart (mavsdk.py:203, 210, 247)
Target == 10
max_timeout == 60
max_mode_wait == 10

\* relative altitudes a position sample may hold, in decimetres
Altitudes == {0, 89, 90, 94, 95, 100}

\* position.relative_altitude_m >= altitude * 0.95 (0.90), pct in percent
Reached(dm, pct) == dm * 10 >= Target * pct

\* the positions get_telemetry may report to the fallback: lat, lon in
\* microdegrees, absolute_alt in metres
Positions == {[lat |-> 47397742, lon |-> 8545594, absolute_alt |-> 488],
              [lat |-> 47397742, lon |-> 8545594, absolute_alt |-> 500]}

\* the command returns r ("true", "false") or raises to its caller ("raised")
Ends(c, r) == [c EXCEPT !.pc = "done", !.result = r]

\* ended by an exception, or by an Arm that was refused
Fault(c, r) == [Ends(c, r) EXCEPT !.fault = TRUE]

Issue(c, cmd) == [c EXCEPT !.log = Append(@, cmd)]

\* a caller awaits the command; is_armed is what earlier commands left
Invoke(name) ==
    /\ command.pc \in {"idle", "done"}
    /\ command' = [NoCommand EXCEPT
                      !.name = name,
                      !.is_armed = command.is_armed,
                      !.was_armed = command.is_armed,
                      !.pc = IF name = "takeoff" /\ command.is_armed
                             THEN "set_takeoff_altitude"
                             ELSE IF name = "takeoff" THEN "arm" ELSE name]
    /\ UNCHANGED besidecommand

\* arm(): only ActionError is caught
ArmReturns(lib) ==
    CASE lib = "ok" -> "true"
      [] lib = "ActionError" -> "false"
      [] lib = "Exception" -> "raised"

\* arm(), called by a caller or by takeoff(), whose outer handler turns an
\* exception of arm() into False
Arm(lib) ==
    /\ command.pc = "arm"
    /\ LET c == [Issue(command, "arm") EXCEPT
                     !.is_armed = IF lib = "ok" THEN TRUE ELSE @]
       IN  command' =
               IF command.name = "arm" THEN Ends(c, ArmReturns(lib))
               ELSE IF ArmReturns(lib) = "true"
                    THEN [c EXCEPT !.pc = "set_takeoff_altitude"]
                    ELSE Fault(c, "false")
    /\ UNCHANGED besidecommand

\* disarm(): on ActionError the first sample of the armed stream decides
\* ("unavailable": the stream raised or ended); other exceptions are not
\* caught
DisarmCommand(lib, armed_state) ==
    /\ command.pc = "disarm"
    /\ LET c == Issue(command, "disarm")
       IN  command' =
               CASE lib = "ok" ->
                      Ends([c EXCEPT !.is_armed = FALSE], "true")
                 [] lib = "ActionError" ->
                      IF armed_state = "disarmed"
                      THEN Ends([c EXCEPT !.is_armed = FALSE], "true")
                      ELSE Ends(c, "false")
                 [] lib = "Exception" -> Ends(c, "raised")
    /\ UNCHANGED besidecommand

\* land(): waits for ON_GROUND, at most max_timeout samples; everything is
\* caught
Land(lib, landing) ==
    /\ command.pc = "land"
    /\ command' =
           IF lib = "ok" /\ landing = "on_ground"
           THEN Ends(Issue(command, "land"), "true")
           ELSE Ends(Issue(command, "land"), "false")
    /\ UNCHANGED besidecommand

\* return_to_launch(): True once the command was accepted
ReturnToLaunch(lib) ==
    /\ command.pc = "return_to_launch"
    /\ command' = Ends(Issue(command, "return_to_launch"),
                         IF lib = "ok" THEN "true" ELSE "false")
    /\ UNCHANGED besidecommand

\* goto_position(): True when a sample within tolerance was read, False
\* when the stream ended or anything raised
GotoPosition(lib, arrival) ==
    /\ command.pc = "goto_position"
    /\ command' =
           IF lib = "ok" /\ arrival = "reached"
           THEN Ends(Issue(command, "goto_location"), "true")
           ELSE Ends(Issue(command, "goto_location"), "false")
    /\ UNCHANGED besidecommand

\* takeoff(): set_takeoff_altitude; any exception reaches the outer handler
SetTakeoffAltitude(lib) ==
    /\ command.pc = "set_takeoff_altitude"
    /\ LET c == Issue(command, "set_takeoff_altitude")
       IN  command' = IF lib = "ok"
                      THEN [c EXCEPT !.pc = "takeoff", !.att = 1]
                      ELSE Fault(c, "false")
    /\ UNCHANGED besidecommand

\* Faulty variant of AttemptFailed (tests C28): no retry, the guided climb
\* follows the first failed attempt.
AttemptFailedNoRetry(c) == [c EXCEPT !.pc = "fallback", !.att = 3, !.k = 0]

\* _attempt_takeoff returned False: after the first attempt sleep 2 s and
\* attempt again, after the second go to the fallback
AttemptFailed(c) ==
    IF c.att = 1
    THEN [Issue(c, "sleep2") EXCEPT !.pc = "takeoff", !.att = 2, !.k = 0]
    ELSE [c EXCEPT !.pc = "fallback", !.att = 3, !.k = 0]

\* _attempt_takeoff: the takeoff command; a rejection fails the attempt,
\* another exception leaves takeoff() through its outer handler
TakeoffCommand(lib) ==
    /\ command.pc = "takeoff"
    /\ LET c == Issue(command, "takeoff")
       IN  command' =
               CASE lib = "ok" -> [c EXCEPT !.pc = "mode", !.k = 0]
                 [] lib = "ActionError" -> AttemptFailed(c)
                 [] lib = "Exception" -> Fault(c, "false")
    /\ UNCHANGED besidecommand

\* _attempt_takeoff: wait for flight mode TAKEOFF, max_mode_wait samples
\* at most ("end": the stream ended; "raise": it raised)
ModeSample(fm) ==
    /\ command.pc = "mode"
    /\ command' =
           CASE fm = "TAKEOFF" -> [command EXCEPT !.pc = "climb", !.k = 0]
             [] fm = "HOLD" ->
                  IF command.k + 1 >= max_mode_wait
                  THEN [command EXCEPT !.pc = "climb", !.k = 0]
                  ELSE [command EXCEPT !.k = @ + 1]
             [] fm = "end" -> [command EXCEPT !.pc = "climb", !.k = 0]
             [] fm = "raise" -> Fault(command, "false")
    /\ UNCHANGED besidecommand

\* _attempt_takeoff: a position sample of the altitude wait; k samples were
\* read before it, one second apart
ClimbSample(dm) ==
    /\ command.pc = "climb"
    /\ LET c == [command EXCEPT !.seen = dm]
       IN  command' =
               IF Reached(dm, 95) THEN Ends(c, "true")
               ELSE IF c.k + 1 > max_timeout THEN AttemptFailed(c)
               ELSE [c EXCEPT !.k = @ + 1]
    /\ UNCHANGED besidecommand

\* the position stream ends (the attempt returns False) or raises (outer
\* handler)
ClimbStream(ev) ==
    /\ command.pc = "climb"
    /\ command' = IF ev = "end" THEN AttemptFailed(command)
                  ELSE Fault(command, "false")
    /\ UNCHANGED besidecommand

\* the fallback: get_telemetry, then goto_location to the current position
\* at absolute_alt + altitude; without a position float(None) raises, and
\* every exception of the fallback ends in return False
Fallback(pos, lib) ==
    /\ command.pc = "fallback"
    /\ command' =
           IF pos = {} THEN Fault(command, "false")
           ELSE LET p == CHOOSE q \in pos : TRUE
                    c == [Issue(command, "goto_location") EXCEPT
                              !.pos = pos,
                              !.goto = {[lat |-> p.lat, lon |-> p.lon,
                                         alt |-> p.absolute_alt + Target]}]
                IN  IF lib = "ok" THEN [c EXCEPT !.pc = "guided", !.k = 0]
                    ELSE Fault(c, "false")
    /\ UNCHANGED besidecommand

\* the guided climb's altitude wait
GuidedSample(dm) ==
    /\ command.pc = "guided"
    /\ LET c == [command EXCEPT !.seen = dm]
       IN  command' =
               IF Reached(dm, 90) THEN Ends(c, "true")
               ELSE IF c.k + 1 > max_timeout THEN Ends(c, "false")
               ELSE [c EXCEPT !.k = @ + 1]
    /\ UNCHANGED besidecommand

GuidedStream(ev) ==
    /\ command.pc = "guided"
    /\ command' = IF ev = "end" THEN Ends(command, "false")
                  ELSE Fault(command, "false")
    /\ UNCHANGED besidecommand

NextCommand ==
    \/ \E name \in Commands : Invoke(name)
    \/ \E lib \in Lib : Arm(lib)
    \/ \E lib \in Lib, a \in {"armed", "disarmed", "unavailable"} :
           DisarmCommand(lib, a)
    \/ \E lib \in Lib, l \in {"on_ground", "timeout", "end"} : Land(lib, l)
    \/ \E lib \in Lib : ReturnToLaunch(lib)
    \/ \E lib \in Lib, a \in {"reached", "end", "raise"} : GotoPosition(lib, a)
    \/ \E lib \in Lib : SetTakeoffAltitude(lib)
    \/ \E lib \in Lib : TakeoffCommand(lib)
    \/ \E fm \in {"TAKEOFF", "HOLD", "end", "raise"} : ModeSample(fm)
    \/ \E dm \in Altitudes : ClimbSample(dm)
    \/ \E ev \in {"end", "raise"} : ClimbStream(ev)
    \/ \E pos \in {{}} \cup {{p} : p \in Positions}, lib \in Lib :
           Fallback(pos, lib)
    \/ \E dm \in Altitudes : GuidedSample(dm)
    \/ \E ev \in {"end", "raise"} : GuidedStream(ev)

SpecCommand == Init /\ [][NextCommand]_vars

\* -------------------------------------------------------- MC3 pattern
\* Lengths are in units of 1/Scale metre, so that letter_height =
\* min(height, width / 2.6) and its multiples by 0.7, 0.25, 1/2 and 1/4 are
\* integers: 1/2.6 = 5/13, and 0.35 = 7/20.
Scale == 260
MaxSide == 6
DegreeUnits == Scale * 111000

\* Faulty variant of LetterHeight (tests C30): the width does not cap it.
LetterHeightUncapped(size) == Scale * size.height

\* letter_height = min(height_m, width_m / denom), denom = 3*0.7 + 2*0.25
LetterHeight(size) == 20 * Min(13 * size.height, 5 * size.width)

\* 1 / cos(radians(lat_center)) for the centres used, keyed by the latitude
\* in degrees
Secant(lat) == IF lat = 60 THEN 2 ELSE 1

Centers == {[lat |-> 0, lon |-> 0], [lat |-> 60, lon |-> 8]}
Sizes == [width : 1..MaxSide, height : 1..MaxSide]
PatternAltitudes == {30, 50}

\* to_waypoint: offsets in metres to degrees, at constant altitude
ToWaypoint(center, altitude, pt) ==
    [lat |-> center.lat * DegreeUnits + pt[2],
     lon |-> center.lon * DegreeUnits + pt[1] * Secant(center.lat),
     alt |-> altitude]

StrokesM(cx, half_w, top_y, bottom_y) ==
    << <<cx - half_w, bottom_y>>, <<cx - half_w, top_y>>, <<cx, bottom_y>>,
       <<cx + half_w, top_y>>, <<cx + half_w, bottom_y>> >>

StrokesC(cx, half_w, top_y, bottom_y) ==
    << <<cx + half_w, top_y>>, <<cx - half_w, top_y>>,
       <<cx - half_w, bottom_y>>, <<cx + half_w, bottom_y>> >>

Strokes3(cx, half_w, quarter_h, top_y, bottom_y) ==
    << <<cx - half_w, top_y>>, <<cx + half_w, top_y>>,
       <<cx + half_w, quarter_h>>, <<cx, 0>>, <<cx + half_w, -quarter_h>>,
       <<cx + half_w, bottom_y>>, <<cx - half_w, bottom_y>> >>

\* _generate_mc3_waypoints: [] without a centre
GenerateMc3Waypoints(center, size, altitude) ==
    IF center = {} THEN <<>>
    ELSE
    LET c == CHOOSE q \in center : TRUE
        letter_height == LetterHeight(size)
        letter_width == (7 * letter_height) \div 10
        spacing_m == letter_height \div 4
        total_text_width == 3 * letter_width + 2 * spacing_m
        left_x == -(total_text_width \div 2)
        half_w == letter_width \div 2
        m_center_x == left_x + half_w
        c_center_x == m_center_x + half_w + spacing_m + half_w
        three_center_x == c_center_x + half_w + spacing_m + half_w
        top_y == letter_height \div 2
        bottom_y == -(letter_height \div 2)
        all_points == StrokesM(m_center_x, half_w, top_y, bottom_y)
                      \o StrokesC(c_center_x, half_w, top_y, bottom_y)
                      \o Strokes3(three_center_x, half_w, letter_height \div 4,
                                  top_y, bottom_y)
    IN  [i \in DOMAIN all_points |-> ToWaypoint(c, altitude, all_points[i])]

\* a MappingTask generates the pattern for its parameters
Generate(center, size, altitude) ==
    /\ mapping.pc = "idle"
    /\ mapping' = [pc |-> "generated", center |-> center, size |-> size,
                   altitude |-> altitude,
                   waypoints |-> GenerateMc3Waypoints(center, size, altitude)]
    /\ UNCHANGED besidemapping

NextPattern ==
    \E center \in {{}} \cup {{c} : c \in Centers}, size \in Sizes,
       altitude \in PatternAltitudes : Generate(center, size, altitude)

SpecPattern == Init /\ [][NextPattern]_vars

\* ----------------------------------------------------------- smoothing
\* Headings in millidegrees, speeds in mm/s.  _smooth_alpha is 0.2 unless
\* TELEMETRY_SMOOTH_ALPHA is set (mavsdk.py:52-57); the heading uses
\* alpha * 0.7.
MaxSteady == 21
Turn == 360000
alpha_pct == 20
heading_gain_pct == 14
deadband == 150

Headings == {0, 90000, 180000, 270000, 359900}
Speeds == {0, 5000, 20000}

\* ((heading_deg - prev + 180.0) % 360.0) - 180.0
Delta(heading_deg, prev) == ((heading_deg - prev + 180000) % Turn) - 180000

\* (prev + alpha * 0.7 * delta) % 360.0
SmoothHeading(prev, heading_deg) ==
    IF prev = {} THEN {heading_deg}
    ELSE LET p == CHOOSE q \in prev : TRUE
         IN  {(p + (heading_gain_pct * Delta(heading_deg, p)) \div 100) % Turn}

\* alpha * speed_raw + (1 - alpha) * sp_prev, then the deadband; sp_prev is
\* speed_raw on the first call
SmoothSpeed(prev, speed_raw) ==
    LET sp_prev == IF prev = {} THEN speed_raw ELSE CHOOSE q \in prev : TRUE
        sp_smooth == (alpha_pct * speed_raw + (100 - alpha_pct) * sp_prev)
                     \div 100
    IN  {IF sp_smooth < deadband THEN 0 ELSE sp_smooth}

\* the first get_telemetry: any heading and speed become the smoothed state
FirstSample(heading_deg, speed_raw) ==
    /\ smoothing.heading = {}
    /\ smoothing' = [heading |-> SmoothHeading({}, heading_deg),
                     speed |-> SmoothSpeed({}, speed_raw),
                     input |-> heading_deg, steady |-> 0]
    /\ UNCHANGED besidesmoothing

\* a later get_telemetry reading the steady stream: speed 0, heading H (the
\* same H on every tick of the stream)
SteadySample(H) ==
    /\ smoothing.heading # {}
    /\ smoothing.steady < MaxSteady
    /\ smoothing.steady > 0 => H = smoothing.input
    /\ smoothing' = [heading |-> SmoothHeading(smoothing.heading, H),
                     speed |-> SmoothSpeed(smoothing.speed, 0),
                     input |-> H, steady |-> smoothing.steady + 1]
    /\ UNCHANGED besidesmoothing

NextSmoothing ==
    \/ \E h \in Headings, sp \in Speeds : FirstSample(h, sp)
    \/ \E H \in Headings : SteadySample(H)

SpecSmoothing == Init /\ [][NextSmoothing]_vars

\* ------------------------------------------------------- one Executor
\* execute() is entered: is_running is set, pre_flight_check is awaited
FlightStart(kind, params) ==
    /\ flight.pc = "idle"
    /\ flight' = [NoFlight EXCEPT !.kind = kind, !.params = params,
                                  !.pc = "preflight", !.is_running = TRUE]
    /\ UNCHANGED besideflight

\* the primitive awaited at pc returns with outcome ok; execute() runs to
\* its next await or returns (finally: is_running = False)
FlightStep(ok) ==
    /\ flight.pc \in ExecutorPcs
    /\ LET nx == ExecutorNext(flight, ok)
           log == Append(flight.log, [cmd |-> flight.pc, idx |-> flight.idx,
                                      ok |-> ok])
       IN  flight' =
               IF nx.ret = "run"
               THEN [flight EXCEPT !.pc = nx.pc, !.idx = nx.idx, !.log = log]
               ELSE [flight EXCEPT !.pc = "returned", !.log = log,
                                   !.is_running = FALSE, !.result = nx.ret]
    /\ UNCHANGED besideflight

\* stop() while execute() is suspended: is_running = False (the
\* hold_position it awaits changes nothing in execute)
FlightStop ==
    /\ flight.pc \in ExecutorPcs
    /\ flight.is_running
    /\ flight' = [flight EXCEPT !.is_running = FALSE, !.stopped = TRUE]
    /\ UNCHANGED besideflight

NextFlight ==
    \/ \E kind \in {"mapping", "relay", "dropping"}, params \in BOOLEAN :
           FlightStart(kind, params)
    \/ \E ok \in BOOLEAN : FlightStep(ok)
    \/ FlightStop

SpecFlight == Init /\ [][NextFlight]_vars

\* ------------------------------------------------- stopping the agent
\* TaskManager.stop() on an agent that has received no request yet and
\* tracks no task (the loop over active_tasks is empty): is_running = False.
\* The long poll that watch_tasks awaits stays in flight.
AgentStop ==
    /\ supervisor.agent_running
    /\ hpc = "idle"
    /\ lastReq = NoReq
    /\ DOMAIN active_tasks = {}
    /\ supervisor' = [supervisor EXCEPT !.agent_running = FALSE]
    /\ UNCHANGED <<status_version_counter, is_connected, last_update, sent,
                   active_tasks, mw_active, store, runs, hpc, lastReq, nreq,
                   armed, notified, reporter, pubvars, listenvars, ordervars,
                   flightvars>>

\* what the C2 sends to the stopped agent: keep-alives and the requests for
\* task T1 on drone d1
StopRequests ==
    {req \in Requests :
        /\ req.task \in {None, "T1"}
        /\ req.drone \in {None, "d1"}
        /\ req.url \in {{}, {"Monitor"}}}

NextStop ==
    \/ AgentStop
    \/ \E req \in StopRequests : Listen(req)
    \/ HandleTask
    \/ AckRpc
    \/ WilcoRpc
    \/ CancelRtl
    \/ CancelRpc
    \/ CompleteRpc
    \/ \E r \in DOMAIN runs : ExecStart(r)
    \/ \E r \in DOMAIN runs : ExecRpc(r)
    \/ \E r \in DOMAIN runs : ExecutorStep(r)
    \/ \E r \in DOMAIN runs : DoneRpc(r)
    \/ \E r \in DOMAIN runs : Retain(r)

SpecStop == Init /\ [][NextStop]_vars

\* ===================================================================
\* Properties
\* ===================================================================
Last(s) == s[Len(s)]
\* execute_requests received for t that reached validation
Requested(t) ==
    Cardinality({i \in DOMAIN sent[t] : sent[t][i].src \in {"ack", "reject"}})
\* terminal statuses sent for t
TerminalCount(t) ==
    Cardinality({i \in DOMAIN sent[t] : sent[t][i].status \in Terminal})
\* a step that sends an UpdateTaskStatus request
Emits == sent' # sent
\* a step of the listen-loop handler
HandlerStep == hpc' # hpc

C2_OneTerminalStatus ==
    \A t \in TaskIds : Requested(t) = 1 => TerminalCount(t) <= 1

\* ------------------------------------------------------------------ C3
InOrderOfProtocol(s) ==
    \A i \in DOMAIN s :
        /\ i = 1 => s[i].status = "STATUS_ACK" /\ s[i].progress = 0
        /\ i = 2 => s[i].status = "STATUS_WILCO" /\ s[i].progress = 0
        /\ i = 3 => s[i].status = "STATUS_EXECUTING" /\ s[i].progress = 0
        /\ i > 3 => s[i].status \in Terminal \cup {"STATUS_EXECUTING"}
        /\ s[i].status \in Terminal => i = Len(s)

\* C3: for a task with one valid execute_request the statuses sent so far
\* are a prefix of ACK, WILCO, EXECUTING, EXECUTING*, terminal (all but the
\* terminal with progress 0 at positions 1-3); the record exists from the ACK
\* on until the execution starts, and an execution exists only after WILCO.
C3_StatusOrder ==
    \A t \in TaskIds :
        (Requested(t) = 1 /\ sent[t][1].src = "ack") =>
            /\ InOrderOfProtocol(sent[t])
            /\ \A r \in DOMAIN runs :
                   runs[r].task = t =>
                       Len(sent[t]) >= 2 /\ sent[t][2].status = "STATUS_WILCO"

\* ------------------------------------------------------------------ C4
\* C4: when a cancel_request for tracked task t (requested once) arrived
\* while its Executor was running, the cancel's STATUS_DONE_NOT_OK is the only
\* terminal status of t and the last status sent for t.
C4_CancelIsFinal ==
    \A t \in TaskIds :
        (/\ Requested(t) = 1
         /\ \E r \in DOMAIN runs : runs[r].task = t /\ runs[r].cancelled
         /\ \E i \in DOMAIN sent[t] : sent[t][i].src = "cancel") =>
            /\ Last(sent[t]).src = "cancel"
            /\ Last(sent[t]).status = "STATUS_DONE_NOT_OK"
            /\ TerminalCount(t) = 1

\* ------------------------------------------------------------------ C5
\* the cancel of run r's task has been processed by _cancel_task
CancelProcessed(r) ==
    /\ runs[r].cancelled
    /\ ~(hpc \in {"cancel_rtl", "cancel_rpc"} /\ lastReq.task = runs[r].task)

\* C5: once the cancel of a running Executor has been processed, that
\* Executor issues no further Takeoff or GotoLocation, the next primitive it
\* issues is Hold, and it does not return success.
C5_CancelStopsExecutor ==
    [][\A r \in DOMAIN runs :
          (CancelProcessed(r) /\ runs'[r] # runs[r]) =>
              /\ runs'[r].pc \notin FlightPcs
              /\ runs'[r].pc \in ExecutorPcs => runs'[r].pc = "hold"
              /\ runs'[r].pc = "done_rpc" => ~runs'[r].result]_vars

\* ------------------------------------------------------------------ C6
\* a cancel_request or complete_request for t has been received
Intervened(t) ==
    \/ \E i \in DOMAIN sent[t] : sent[t][i].src \in {"cancel", "complete"}
    \/ /\ hpc \in {"recv", "cancel_rtl", "cancel_rpc", "complete_rpc"}
       /\ lastReq.type \in {"cancel", "complete"}
       /\ lastReq.task = t

DoneOk == [status |-> "STATUS_DONE_OK", progress |-> 100, src |-> "done"]
DoneNotOk == [status |-> "STATUS_DONE_NOT_OK", progress |-> 0, src |-> "done"]
Facet(status, p) ==
    [current_task |-> None, task_status |-> status, task_progress |-> p,
     armed |-> FALSE]

\* C6: when the Executor of run r returns and no cancel or complete for its
\* task intervened, the step sends STATUS_DONE_OK 1.0 (success) or
\* STATUS_DONE_NOT_OK 0.0 (failure), and when that RPC has returned the
\* drone's task facet becomes (none, COMPLETED, 1.0) or (none, FAILED, 0.0)
\* and no other status is sent.
C6_ExecutorReturn ==
    [][\A r \in DOMAIN runs :
          LET t == runs[r].task
              d == runs[r].drone IN
          /\ (runs[r].pc \in ExecutorPcs /\ runs'[r].pc = "done_rpc"
                /\ ~Intervened(t)) =>
                 sent' = [sent EXCEPT ![t] = Append(@,
                     IF runs'[r].result THEN DoneOk ELSE DoneNotOk)]
          /\ (runs[r].pc = "done_rpc" /\ runs'[r] # runs[r]
                /\ ~Intervened(t)) =>
                 /\ sent' = sent
                 /\ store'[d] = IF runs[r].result THEN Facet("COMPLETED", 100)
                                ELSE Facet("FAILED", 0)]_vars

\* ------------------------------------------------------------------ C7
\* the request being handled is an execute_request with a task_id whose
\* assignee is missing or names no managed drone
RejectCase ==
    /\ lastReq.type = "execute"
    /\ lastReq.task # None
    /\ lastReq.drone \notin Drones

\* C7: the handler of an execute_request whose assignee is missing or
\* unmanaged sends exactly one update, STATUS_DONE_NOT_OK for its task_id,
\* and from its start to its return creates no Task record, spawns no
\* execution and leaves the State Store and the Supervisor's map unchanged.
C7_RejectedExecute ==
    [][(HandlerStep /\ RejectCase) =>
          /\ hpc = "recv" =>
                /\ hpc' = "reject_rpc"
                /\ sent' = [sent EXCEPT ![lastReq.task] = Append(@,
                      [status |-> "STATUS_DONE_NOT_OK", progress |-> 0,
                       src |-> "reject"])]
          /\ hpc = "reject_rpc" => hpc' = "idle" /\ sent' = sent
          /\ UNCHANGED <<active_tasks, runs, store, mw_active>>]_vars

\* a request for an unmanaged drone was rejected while another task is
\* tracked and its Executor runs
C7_Witness ==
    /\ hpc = "reject_rpc"
    /\ lastReq.drone = Unmanaged
    /\ Last(sent[lastReq.task]).src = "reject"
    /\ \E r \in DOMAIN runs : runs[r].pc \in ExecutorPcs
    /\ active_tasks # Empty

\* ------------------------------------------------------------------ C8
\* the request being handled is an execute_request without task_id
NoTaskIdCase == lastReq.type = "execute" /\ lastReq.task = None

C9_CompleteRequest ==
    [][/\ (hpc = "recv" /\ HandlerStep /\ lastReq.type = "complete"
             /\ lastReq.task \in DOMAIN active_tasks) =>
              /\ hpc' = "complete_rpc"
              /\ sent' = [sent EXCEPT ![lastReq.task] = Append(@,
                    [status |-> "STATUS_DONE_OK", progress |-> 100,
                     src |-> "complete"])]
       /\ (hpc = "complete_rpc" /\ HandlerStep) =>
              /\ hpc' = "idle"
              /\ lastReq.task \notin DOMAIN active_tasks'
       /\ \A t \in TaskIds :
              (t \notin DOMAIN active_tasks /\ t \in DOMAIN active_tasks') =>
                  hpc = "recv" /\ lastReq.type = "execute" /\ lastReq.task = t
       /\ (hpc = "recv" /\ HandlerStep
             /\ lastReq.type \in {"cancel", "complete"}
             /\ lastReq.task \notin DOMAIN active_tasks) =>
              sent' = sent /\ hpc' = "idle"]_vars

\* t was completed by a complete_request, is no longer tracked, and a later
\* cancel_request for t has been handled without a status
C9_Witness ==
    \E t \in TaskIds :
        /\ hpc = "idle"
        /\ lastReq.type = "cancel"
        /\ lastReq.task = t
        /\ t \notin DOMAIN active_tasks
        /\ sent[t] # <<>>
        /\ Last(sent[t]).src = "complete"
        /\ Last(sent[t]).status = "STATUS_DONE_OK"
        /\ Last(sent[t]).progress = 100

\* ------------------------------------------------------------------ C10
\* the request being handled needs no action
NeedsNoAction ==
    \/ lastReq.type = "keepalive"
    \/ /\ lastReq.type \in {"cancel", "complete"}
       /\ lastReq.task \notin DOMAIN active_tasks

\* C10: handling a keep-alive, or a cancel_request or complete_request whose
\* task_id is not tracked, sends no UpdateTaskStatus, leaves the status
\* version, the tracked tasks, the State Store, the Supervisor's map and
\* every execution as they were, and returns to the listen loop.
C10_NoActionFrame ==
    [][(hpc = "recv" /\ HandlerStep /\ NeedsNoAction) =>
          /\ hpc' = "idle"
          /\ UNCHANGED <<status_version_counter, last_update, sent,
                         active_tasks, store, runs, mw_active>>]_vars

\* a cancel_request for an untracked task was handled while another task is
\* tracked and its Executor is running
C10_Witness ==
    /\ hpc = "idle"
    /\ lastReq.type = "cancel"
    /\ lastReq.task \in TaskIds \ DOMAIN active_tasks
    /\ active_tasks # Empty
    /\ \E r \in DOMAIN runs : runs[r].pc \in FlightPcs

\* ------------------------------------------------------------------ C11
Surveillance == {"VisualId", "Investigate", "Monitor"}

\* C11 (amended): the task kind of an execution is a function of the
\* specification URL of its request, by the first match in this order: a
\* URL containing VisualId, Investigate or Monitor gives mapping; else one
\* containing Mapping gives mapping; else one containing Relay gives relay;
\* else one containing Dropping gives dropping; else (no keyword, no URL)
\* mapping.
C11_RoutingByFirstMatch ==
    \A r \in DOMAIN runs :
        runs[r].task \in DOMAIN active_tasks =>
            LET url == active_tasks[runs[r].task].url
                kind == runs[r].kind IN
            /\ url \cap Surveillance # {} => kind = "mapping"
            /\ (url \cap Surveillance = {} /\ "Mapping" \in url) =>
                   kind = "mapping"
            /\ (url \cap (Surveillance \cup {"Mapping"}) = {}
                  /\ "Relay" \in url) => kind = "relay"
            /\ (url \cap (Surveillance \cup {"Mapping", "Relay"}) = {}
                  /\ "Dropping" \in url) => kind = "dropping"
            /\ url \cap Keywords = {} => kind = "mapping"

\* C11 as stated: every URL containing Relay routes to relay, every URL
\* containing Dropping to dropping, every URL containing Mapping to mapping,
\* and every URL containing VisualId, Investigate or Monitor, or none of the
\* words, to mapping.
C11_RoutingByKeyword ==
    \A r \in DOMAIN runs :
        runs[r].task \in DOMAIN active_tasks =>
            LET url == active_tasks[runs[r].task].url
                kind == runs[r].kind IN
            /\ "Relay" \in url => kind = "relay"
            /\ "Dropping" \in url => kind = "dropping"
            /\ "Mapping" \in url => kind = "mapping"
            /\ (url \cap Surveillance # {} \/ url \cap Keywords = {}) =>
                   kind = "mapping"

\* the execution of a request whose URL contains both Relay and Monitor was
\* created as a mapping task and has sent STATUS_EXECUTING
C11_Witness ==
    \E r \in DOMAIN runs :
        /\ runs[r].pc = "exec_rpc"
        /\ runs[r].kind = "mapping"
        /\ runs[r].task \in DOMAIN active_tasks
        /\ active_tasks[runs[r].task].url = {"Relay", "Monitor"}

\* ------------------------------------------------------------------ C12
\* C12: when drone d was disarmed while the Executor of task T was flying
\* it, a STATUS_DONE_NOT_OK for T has been sent by the time the execution's
\* terminal status is out, and once its RPC has returned the Task is marked
\* FAILED and the State Store task_status of d is FAILED.
C12_DisarmFailsTask ==
    \A r \in DOMAIN runs :
        (runs[r].disarmed /\ runs[r].pc \in {"done_rpc", "retain"}) =>
            /\ \E i \in DOMAIN sent[runs[r].task] :
                   sent[runs[r].task][i].status = "STATUS_DONE_NOT_OK"
            /\ runs[r].pc = "retain" =>
                   /\ active_tasks[runs[r].task].status = "FAILED"
                   /\ store[runs[r].drone].task_status = "FAILED"

\* ------------------------------------------------------------------ C13
\* the call sites that send a terminal status by completion or failure of the
\* execution, by cancel or by complete_request
TerminalSources == {"done", "except", "cancel", "complete"}

\* C13: in the statuses sent for a task, no STATUS_ACK, STATUS_WILCO or
\* STATUS_EXECUTING comes after a terminal status that was sent by
\* completion, failure, cancel or complete_request.
C13_NothingAfterTerminal ==
    \A t \in TaskIds :
        \A i, j \in DOMAIN sent[t] :
            (/\ i < j
             /\ sent[t][i].status \in Terminal
             /\ sent[t][i].src \in TerminalSources) =>
                sent[t][j].status \in Terminal

\* ------------------------------------------------------------------ C14
NonDecreasing(s) ==
    \A i, j \in DOMAIN s :
        (i < j /\ s[i].status = "STATUS_EXECUTING"
               /\ s[j].status = "STATUS_EXECUTING") =>
            s[i].progress <= s[j].progress

\* C14: while a drone's record keeps its task_id and the status EXECUTING,
\* its stored progress never becomes lower, and the progress values of the
\* STATUS_EXECUTING updates sent for a task are non-decreasing, whatever
\* values the progress callback is called with.
C14_ProgressNeverDecreases ==
    [][/\ \A d \in Drones :
            (/\ store[d].task_status = "EXECUTING"
             /\ store'[d].task_status = "EXECUTING"
             /\ store'[d].current_task = store[d].current_task) =>
                store'[d].task_progress >= store[d].task_progress
       /\ \A t \in TaskIds : NonDecreasing(sent'[t])]_vars

\* ------------------------------------------------------------------ C15
IdleStatuses == {"NONE", "COMPLETED", "FAILED", "CANCELLED", "ERROR"}

\* C15: in every reachable state, a drone record of the State Store whose
\* current_task is none has a task_status among NONE, COMPLETED, FAILED,
\* CANCELLED, ERROR.
C15_IdleRecordHasIdleStatus ==
    \A d \in DOMAIN store :
        store[d].current_task = None => store[d].task_status \in IdleStatuses

\* the cancel handler has written (none, CANCELLED) to the record of a drone
\* whose Executor is still flying
C15_Witness ==
    \E d \in Drones :
        /\ store[d].current_task = None
        /\ store[d].task_status = "CANCELLED"
        /\ \E r \in DOMAIN runs :
               /\ runs[r].drone = d
               /\ runs[r].cancelled
               /\ runs[r].pc \in FlightPcs

\* ------------------------------------------------------------------ C16
\* a step in which _execute_task calls StateManager.update_task_status
StoreOperation ==
    \E r \in DOMAIN runs :
        /\ runs[r].pc \in {"exec_rpc", "done_rpc", "fail_rpc"}
        /\ runs'[r].pc # runs[r].pc
        /\ \E t \in TaskIds \cup {None}, p \in {0, 100},
              status \in {"EXECUTING", "COMPLETED", "FAILED"} :
               store' = UpdateTaskStatus(store, runs[r].drone, t, status, p)

\* C16: the records of the State Store change only by a State Store
\* operation: a holder of a record obtained by get_drone_state (the
\* Supervisor in _run_task and stop_task) changes nothing in the store by
\* writing to what it holds.
C16_StoreChangesByOperationOnly ==
    [][store' # store => StoreOperation]_vars

\* ------------------------------------------------------------------ C17
\* C17: every change of a drone record by a State Store operation
\* (update_drone_state, remove_drone, update_telemetry, update_task_status)
\* is notified to the subscriber in the same operation, after the change,
\* as (drone_id, record before, record after).
C17_EveryChangeNotified ==
    [][\A d \in Drones :
          Rec(store', d) # Rec(store, d) =>
              notified' = Append(notified,
                  [drone |-> d, old |-> Rec(store, d),
                   new |-> Rec(store', d)])]_vars

\* ------------------------------------------------------------------ C18
\* the most recent valid position of a tick history, if any
RECURSIVE MostRecentValid(_)
MostRecentValid(h) ==
    IF h = <<>> THEN {}
    ELSE IF AbsOk(Last(h)) THEN {Last(h)}
    ELSE MostRecentValid(SubSeq(h, 1, Len(h) - 1))

\* a step that issues a PublishEntity request
Publishes == published' # published

\* C18: no PublishEntity request is issued for a drone before a valid
\* position has been read for it, on the REST path and on the gRPC path.
C18_NoPublishBeforeValidPosition ==
    [][Publishes =>
          MostRecentValid(ticks[Last(published').drone]) # {}]_vars

\* ------------------------------------------------------------------ C19
\* the valid positions read so far for drone d
ValidSeen(d) == {ticks[d][i] : i \in DOMAIN ticks[d]} \cap {p \in Ticks : AbsOk(p)}

\* C19: every location published for a drone is the current tick's position,
\* valid and without uncertainty, or an earlier valid position with a
\* location uncertainty > 0.
C19_PublishedCurrentOrMarkedCached ==
    [][Publishes =>
          LET e == Last(published')
              cur == Last(ticks[e.drone])
          IN  \/ /\ AbsOk(cur)
                 /\ e.location = cur
                 /\ e.uncertainty = 0
              \/ /\ e.location \in ValidSeen(e.drone)
                 /\ e.uncertainty > 0]_vars

\* ------------------------------------------------------------------ C20
\* a step in which get_telemetry returns to the publish loop
Snapshots == publisher.pc = "idle" /\ publisher'.pc = "snapshot"

\* C20: the position in the dict get_telemetry returns is the current tick's
\* position when it is valid, else the most recent earlier valid position,
\* else absent; it is never an invalid position, and the cache holds the
\* most recent valid position of the ticks read (a read that raises returns
\* no dict entries at all).
C20_SnapshotPosition ==
    [][Snapshots =>
          LET d == publisher'.drone
          IN  /\ ~publisher'.failed =>
                     publisher'.position = MostRecentValid(ticks'[d])
              /\ \A p \in publisher'.position : AbsOk(p)
              /\ \A e \in Drones :
                     last_valid_position'[e] = MostRecentValid(ticks'[e])]_vars

\* get_telemetry has returned the second of two valid positions for a
\* current tick that is invalid
C20_Witness ==
    /\ publisher.pc = "snapshot"
    /\ ~publisher.failed
    /\ LET h == ticks[publisher.drone]
       IN  /\ Len(h) = 3
           /\ AbsOk(h[1]) /\ AbsOk(h[2]) /\ h[1] # h[2]
           /\ ~AbsOk(h[3])
           /\ publisher.position = {h[2]}

\* ------------------------------------------------------------------ C21
\* C21: after the k-th consecutive ListenAsAgent error the listen loop waits
\* min(1 s * 2^(k-1), 60 s) plus a jitter of at most 10 % of that delay.
C21_ExponentialBackoff ==
    \A i \in DOMAIN waits :
        waits[i].k > 0 =>
            /\ waits[i].delay =
                   Min(base_retry_delay * Pow2(waits[i].k - 1), max_retry_delay)
            /\ waits[i].jitter * 10 <= waits[i].delay

\* ------------------------------------------------------------------ C22
\* a step in which the listen loop goes to sleep after a fault
Faults == waits' # waits /\ waits' # <<>>

\* the task state of the agent
taskstate == <<active_tasks, mw_active, store, runs, status_version_counter,
               sent, last_update>>

\* C22: a ListenAsAgent error or long-poll timeout leaves the tracked tasks,
\* the State Store records, the executions and the status version as they
\* were, and the listen loop is back at its poll, ready for the next request.
C22_FaultMutatesNoTaskState ==
    [][Faults => (UNCHANGED taskstate /\ hpc' = "idle")]_vars

\* the long poll has failed while a task is tracked and its Executor flies
C22_Witness ==
    /\ errors > 0
    /\ hpc = "idle"
    /\ \E r \in DOMAIN runs :
           /\ runs[r].pc \in FlightPcs
           /\ runs[r].task \in DOMAIN active_tasks

\* ------------------------------------------------------------------ C23
\* C23: the C2 receives the status updates in status_version order, also
\* when several updates are in flight at once.
C23_ReceivedInVersionOrder ==
    \A i, j \in DOMAIN received : i < j => received[i] < received[j]

\* ------------------------------------------------------------------ C24
\* a step that removes task t from the tracked tasks
Evicts(t) == t \in DOMAIN active_tasks /\ t \notin DOMAIN active_tasks'

\* C24: a Task that reached a terminal state leaves the tracked tasks only
\* when the 60 s sleep that followed its terminal status ends.
C24_EvictedOnlyAfterRetention ==
    [][\A t \in TaskIds :
          (Evicts(t) /\ TerminalCount(t) > 0) =>
              \E r \in DOMAIN runs :
                  /\ runs[r].task = t
                  /\ runs[r].pc = "retain"
                  /\ runs'[r].pc = "end"]_vars

\* ------------------------------------------------------------------ C25
\* a step of shutdown that stops Sessions
StopsSessions == supervisor'.sessions # supervisor.sessions

\* C25: shutdown stops the Sessions only after the Task Agent and the Asset
\* Publisher were stopped and closes the C2 connection only after the
\* Sessions; once it has completed, no request is dispatched and no
\* PublishEntity or UpdateTaskStatus RPC is issued.
C25_ShutdownOrder ==
    [][/\ StopsSessions =>
              (~supervisor'.agent_running /\ ~supervisor'.publisher_running)
       /\ (is_connected /\ ~is_connected') => supervisor'.sessions = {}
       /\ supervisor.pc = "done" =>
              (~HandlerStep /\ ~Emits /\ ~Publishes)]_vars

\* ------------------------------------------------------------------ C26
\* what exists for the drones whose connect raised
FailedAbsent ==
    LET failed == supervisor.failed IN
    /\ failed \cap supervisor.connectors = {}
    /\ failed \cap DOMAIN store = {}
    /\ failed \cap supervisor.registered = {}
    /\ \A i \in DOMAIN published : published[i].drone \notin failed
    /\ \A t \in DOMAIN active_tasks : active_tasks[t].drone \notin failed
    /\ supervisor.pc = "running" =>
           supervisor.connectors \cup failed = Drones

\* C26: a UAV whose connect fails is absent from the connector map, the
\* State Store and the Publisher's registry while the others are attempted
\* and startup completes; nothing is published for it and an
\* execute_request assigned to it is rejected.
C26_FailedDroneSkipped ==
    /\ []FailedAbsent
    /\ [][(hpc = "recv" /\ HandlerStep /\ lastReq.type = "execute"
              /\ lastReq.drone \in supervisor.failed) =>
             (/\ hpc' = "reject_rpc"
              /\ Last(sent'[lastReq.task]).status = "STATUS_DONE_NOT_OK"
              /\ runs' = runs)]_vars

\* d1 failed to connect, d2 connected and is published, and a request
\* assigned to d1 was rejected
C26_Witness ==
    /\ supervisor.pc = "running"
    /\ supervisor.failed = {"d1"}
    /\ supervisor.connectors = {"d2"}
    /\ \E i \in DOMAIN published : published[i].drone = "d2"
    /\ \E i \in DOMAIN sent["T1"] : sent["T1"][i].src = "reject"

\* ------------------------------------------------------------------ C27
\* the pre-flight check saw the drone armed: in its first snapshot, or in
\* the fresh one after an Arm command that was accepted
SeenArmed ==
    \/ preflight.tel.armed
    \/ preflight.arm = "ok" /\ preflight.confirm

\* the commands that make the drone fly
FlightCommands == {i \in DOMAIN preflight.commands :
                       preflight.commands[i] \in FlightPcs}

\* C27: for the three task kinds, a pre-flight check that did not see the
\* drone armed, or saw a GPS fix type below 3 or none, makes the Executor
\* return failure with no Takeoff and no GotoLocation issued; an Executor
\* that flies has seen the drone armed and a fix type >= 3.
C27_PreflightGuardsFlight ==
    /\ preflight.pc \in {"failed", "flying"} =>
           ((~SeenArmed \/ \A g \in preflight.tel.gps : g < 3) =>
                preflight.pc = "failed")
    /\ preflight.pc # "flying" => FlightCommands = {}
    /\ preflight.pc = "flying" =>
           (SeenArmed /\ \E g \in preflight.tel.gps : g >= 3)

\* a dropping task with parameters, armed by the check, fails on a 2D fix
C27_Witness ==
    /\ preflight.pc = "failed"
    /\ preflight.kind = "dropping" /\ preflight.params
    /\ preflight.arm = "ok" /\ preflight.confirm
    /\ preflight.tel.gps = {2}
    /\ preflight.commands = <<"arm">>

\* ------------------------------------------------------------------ C28
\* the positions of a library command in the log of the command in progress
Issued(cmd) == {i \in DOMAIN command.log : command.log[i] = cmd}

\* C28: takeoff arms the UAV first if it is not armed; it issues the takeoff
\* command at most twice, the second time right after a 2 s sleep that
\* follows a failed first attempt; it issues the guided climb at most once,
\* only after two takeoff commands, to the current position at current AMSL
\* plus the target; it returns success only on a sample at 0.95 x target
\* read within 60 s by an attempt, or at 0.90 x target read within 60 s by
\* the guided climb; and unless an exception or a refused Arm ended it, it
\* returns failure only after both attempts and the guided climb.
C28_TakeoffEscalation ==
    command.name = "takeoff" =>
        /\ Issued("arm") = IF command.was_armed \/ command.log = <<>>
                           THEN {} ELSE {1}
        /\ Issued("takeoff") # {} => command.is_armed
        /\ Cardinality(Issued("takeoff")) <= 2
        /\ Cardinality(Issued("takeoff")) = 2 =>
               \E i \in Issued("sleep2") : Issued("takeoff") = {i - 1, i + 1}
        /\ Issued("sleep2") # {} => command.att >= 2
        /\ command.att = 2 /\ command.pc # "takeoff" =>
               Cardinality(Issued("takeoff")) = 2
        /\ Cardinality(Issued("goto_location")) <= 1
        /\ Issued("goto_location") # {} =>
               /\ Cardinality(Issued("takeoff")) = 2
               /\ command.att = 3
               /\ Issued("goto_location") = {Len(command.log)}
               /\ \E p \in command.pos :
                      command.goto = {[lat |-> p.lat, lon |-> p.lon,
                                       alt |-> p.absolute_alt + Target]}
        /\ command.result = "true" =>
               /\ command.k <= max_timeout
               /\ \/ command.att \in {1, 2} /\ command.seen * 10 >= 95 * Target
                  \/ command.att = 3 /\ command.seen * 10 >= 90 * Target
                                     /\ Issued("goto_location") # {}
        /\ command.result = "false" /\ ~command.fault =>
               /\ Cardinality(Issued("takeoff")) = 2
               /\ Cardinality(Issued("goto_location")) = 1
        /\ command.result # "raised"

\* a disarmed UAV: both attempts time out and the guided climb succeeds at
\* 0.90 x target on its last sample
C28_Witness ==
    /\ command.name = "takeoff"
    /\ command.result = "true"
    /\ command.log = <<"arm", "set_takeoff_altitude", "takeoff", "sleep2",
                       "takeoff", "goto_location">>
    /\ command.seen = 90
    /\ command.k = max_timeout

\* ------------------------------------------------------------------ C29
\* C29: no adapter command raises to its caller, whatever the library does.
C29_CommandsNeverRaise == command.result # "raised"

\* ------------------------------------------------------------------ C30
\* the offset of a waypoint from the centre, in 1/Scale metre: x east,
\* y north
OffsetOf(wp, c) == [x |-> (wp.lon - c.lon * DegreeUnits) \div Secant(c.lat),
                    y |-> wp.lat - c.lat * DegreeUnits]

\* the corners of the three letters as the stroke order names them, from
\* the letter height h (in 1/Scale metre, times 20): letter j spans
\* [Left(j), Left(j) + 14 k] with k = h / 20
ExpectedStrokes(h) ==
    LET k == h \div 20
        L(j) == -26 * k + j * 19 * k
        R(j) == L(j) + 14 * k
        Mid(j) == L(j) + 7 * k
        top == 10 * k
        bot == -10 * k
    IN  << <<L(0), bot>>, <<L(0), top>>, <<Mid(0), bot>>, <<R(0), top>>,
           <<R(0), bot>>,
           <<R(1), top>>, <<L(1), top>>, <<L(1), bot>>, <<R(1), bot>>,
           <<L(2), top>>, <<R(2), top>>, <<R(2), 5 * k>>, <<Mid(2), 0>>,
           <<R(2), -5 * k>>, <<R(2), bot>>, <<L(2), bot>> >>

\* C30: for every centre and every positive size the generator returns 16
\* waypoints, the 5 of M, the 4 of C and the 7 of 3 in their stroke order,
\* all at altitude_m, the letter height being min(height, width / 2.6), and
\* every waypoint inside the width x height box centred on the centre.
C30_Mc3Pattern ==
    (mapping.pc = "generated" /\ mapping.center # {}) =>
        LET c == CHOOSE q \in mapping.center : TRUE
            w == mapping.size.width
            h == mapping.size.height
            letter_height == IF 13 * h <= 5 * w THEN 260 * h ELSE 100 * w
            wps == mapping.waypoints
        IN  /\ Len(wps) = 16
            /\ \A i \in 1..16 :
                   /\ wps[i].alt = mapping.altitude
                   /\ OffsetOf(wps[i], c).x = ExpectedStrokes(letter_height)[i][1]
                   /\ OffsetOf(wps[i], c).y = ExpectedStrokes(letter_height)[i][2]
                   /\ 2 * Abs(OffsetOf(wps[i], c).x) <= Scale * w
                   /\ 2 * Abs(OffsetOf(wps[i], c).y) <= Scale * h

\* a wide area at 60 degrees north: the height caps the letters
C30_Witness ==
    /\ mapping.pc = "generated"
    /\ mapping.center = {[lat |-> 60, lon |-> 8]}
    /\ mapping.size = [width |-> 6, height |-> 2]
    /\ Len(mapping.waypoints) = 16
    /\ mapping.waypoints[1].lat = 60 * DegreeUnits - 260

\* ------------------------------------------------------------------ C31
\* the smoothed heading and speed that Snapshot returns
HeadingOut == CHOOSE h \in smoothing.heading : TRUE
SpeedOut == CHOOSE sp \in smoothing.speed : TRUE

\* the angle between two headings, along the shorter arc
Arc(a, b) == Abs(Delta(a, b))

\* C31: after at least 20 ticks of a steady stream with speed 0 and heading
\* H, from any earlier smoothed state, the returned speed is exactly 0 and
\* the returned heading is within 0.5 degree of H.
C31_SteadyStateConverges ==
    smoothing.steady >= 20 =>
        /\ SpeedOut = 0
        /\ Arc(smoothing.input, HeadingOut) <= 500

\* the parts of C31 that hold: the smoothed heading stays in [0, 360) and
\* every steady tick brings it no farther from H (shorter arc)
C31_HeadingInRangeShorterArc ==
    /\ [](smoothing.heading # {} => HeadingOut \in 0..(Turn - 1))
    /\ [][smoothing.steady > 0 /\ smoothing'.steady = smoothing.steady + 1 =>
            Arc(smoothing.input, HeadingOut') <= Arc(smoothing.input, HeadingOut)]_vars

\* ------------------------------------------------------------------ C32
\* the positions in the Executor's log at which it awaited cmd
Awaited(cmd) == {i \in DOMAIN flight.log : flight.log[i].cmd = cmd}

\* the awaited cmd that came back refused
Refused(cmd) == {i \in Awaited(cmd) : ~flight.log[i].ok}

\* pre-flight and takeoff succeeded
TookOff ==
    \E i \in Awaited("takeoff") : flight.log[i].ok /\ flight.log[i - 1].ok

C33_RelayTakeoffThenHold ==
    flight.kind = "relay" =>
        /\ \A i \in Awaited("goto") : \E j \in Awaited("takeoff") : j < i
        /\ \A i \in Awaited("goto") :
               flight.log[i].idx >= 1 =>
                   /\ flight.log[i - 1].cmd = "get_position"
                   /\ ~flight.log[i - 1].ok
        /\ \A i \in Awaited("get_position") :
               (i < Len(flight.log) /\ ~flight.log[i].ok) =>
                   flight.log[i + 1].cmd = "goto"
        /\ \A i \in Awaited("get_position") : flight.log[i].idx <= MaxRelayTicks

\* ------------------------------------------------------------------ C34
\* the log entries of drop location n
AtLocation(n) == {i \in DOMAIN flight.log :
                      flight.log[i].idx = n /\ flight.log[i].cmd # "preflight"}

\* C34: a dropping Executor works through the drop locations in list order,
\* each as Goto(approach), Goto(drop), stabilize, release, Goto(approach);
\* the release of a location comes only after its approach and its descent
\* both succeeded, and a failed approach or descent ends the Executor at
\* once, as a failure, with nothing awaited after it.
C34_DropSequence ==
    flight.kind = "dropping" =>
        /\ \A i \in DOMAIN flight.log : i > 1 =>
               LET e == flight.log[i]
                   before == flight.log[i - 1]
               IN  CASE e.cmd = "goto_a" ->
                          \/ i = 2 /\ e.idx = 1
                          \/ before.cmd = "goto_r" /\ e.idx = before.idx + 1
                     [] e.cmd = "goto_d" ->
                          before.cmd = "goto_a" /\ before.ok /\ e.idx = before.idx
                     [] e.cmd = "stabilize" ->
                          before.cmd = "goto_d" /\ before.ok /\ e.idx = before.idx
                     [] e.cmd = "release" ->
                          before.cmd = "stabilize" /\ before.ok
                          /\ e.idx = before.idx
                     [] e.cmd = "goto_r" ->
                          before.cmd \in {"release", "stabilize"}
                          /\ e.idx = before.idx
                     [] OTHER -> FALSE
        /\ \A i \in Awaited("release") :
               \E a \in Awaited("goto_a"), d \in Awaited("goto_d") :
                   /\ a < d /\ d < i
                   /\ flight.log[a].ok /\ flight.log[d].ok
                   /\ flight.log[a].idx = flight.log[i].idx
                   /\ flight.log[d].idx = flight.log[i].idx
        /\ \A i \in Refused("goto_a") \cup Refused("goto_d") :
               /\ i = Len(flight.log)
               /\ flight.pc = "returned"
               /\ flight.result = "fail"

\* the first location was served, the descent to the second failed
C34_Witness ==
    /\ flight.kind = "dropping"
    /\ flight.result = "fail"
    /\ Awaited("release") # {}
    /\ \A i \in Awaited("release") : flight.log[i].idx = 1
    /\ \E i \in Refused("goto_d") : flight.log[i].idx = 2

\* ------------------------------------------------------------------ C35
\* C35: once the Task Agent is stopped and the long poll that was in flight
\* has returned, the listen loop receives no further AgentRequest (it has
\* made no further ListenAsAgent call).
C35_NoPollAfterStop ==
    [][(~supervisor.agent_running /\ lastReq # NoReq)
           => ~(hpc = "idle" /\ hpc' = "recv")]_vars

\* ------------------------------------------------------------------ C36
\* the runs whose Executor is between its start and its return
Executing(d) == {r \in DOMAIN runs : runs[r].drone = d /\ runs[r].pc \in ExecutorPcs}

\* run r holds the Supervisor's entry of its drone: its Executor is the one
\* started last
Current(r) ==
    /\ runs[r].drone \in DOMAIN mw_active
    /\ mw_active[runs[r].drone] = MwTaskId(runs[r].drone, runs[r].kind, r)

\* C36: once a new Executor has started on a UAV, an earlier Executor on the
\* same UAV issues no further Takeoff, GotoLocation or ReturnToLaunch.
C36_SupersededExecutorSilent ==
    [][\A d \in Drones : \A r1, r2 \in Executing(d) :
           (r1 # r2 /\ Current(r2)) =>
               ~(/\ runs'[r1].pc \in FlightPcs \cup {"rtl"}
                 /\ <<runs'[r1].pc, runs'[r1].idx>> # <<runs[r1].pc, runs[r1].idx>>)]_vars

\* ------------------------------------------------------------------ C37
\* C37: the Supervisor's map holds an entry for UAV d exactly while an
\* Executor started for d has not returned.
C37_EntryWhileExecutorRuns ==
    \A d \in Drones : d \in DOMAIN mw_active <=> Executing(d) # {}

\* ------------------------------------------------------------------ C38
\* C38: an execute_request whose task_id is already tracked (executing, or
\* retained after its terminal status) is absorbed: handling it sends no
\* status, leaves the Task record as it is and starts no execution.
C38_DuplicateAbsorbed ==
    [][(/\ hpc = "recv"
        /\ HandlerStep
        /\ lastReq.type = "execute"
        /\ lastReq.task \in DOMAIN active_tasks) =>
            /\ hpc' = "idle"
            /\ sent' = sent
            /\ active_tasks' = active_tasks
            /\ runs' = runs]_vars

\* ------------------------------------------------------------------ C39
\* the drop locations at which the payload release was triggered and did
\* not fail
Released == {flight.log[i].idx : i \in {j \in Awaited("release") : flight.log[j].ok}}

\* C39: a dropping Executor returns success only if the payload release was
\* triggered at every listed drop location.
C39_SuccessMeansAllReleased ==
    (flight.kind = "dropping" /\ flight.result = "ok") =>
        Released = 1..MaxDrops

\* ------------------------------------------------------------------ C40
\* the Arm command of the pre-flight check took effect (the fresh snapshot
\* showed the UAV armed) and no Disarm followed it
LeftArmed ==
    /\ preflight.arm = "ok"
    /\ preflight.confirm
    /\ \A i \in DOMAIN preflight.commands : preflight.commands[i] # "disarm"

\* C40: a pre-flight check that found the UAV disarmed and fails does not
\* leave it armed.
C40_FailedPreflightRestoresArmedState ==
    (/\ preflight.pc = "failed"
     /\ ~(SeenArmed /\ GpsOk(preflight.tel.gps))
     /\ ~preflight.tel.armed) => ~LeftArmed

====
